---- MODULE Spec2Model ----
(***************************************************************************)
(* Sandboxed-execution and approval core of the codex orchestrator.        *)
(*                                                                         *)
(* Four subsystems, each with its own specification over the shared        *)
(* variables:                                                              *)
(*   SpecEsc   - the escalation IPC server (exec-server, escalate_server)  *)
(*   SpecAppr  - the web-server's pending-approval map (approval_manager,  *)
(*               stream_events)                                            *)
(*   SpecPatch - apply_patch approval, the approval cache and the          *)
(*               orchestrator's escalate-on-failure retry                  *)
(*   SpecExec  - the exec pipeline (streaming, truncation, expiration)     *)
(***************************************************************************)
EXTENDS Integers, Sequences, FiniteSets, TLC

VARIABLES
    \* ---- escalation IPC (escalate_server.rs) ----
    server_loop,        \* escalate_task: "running" | "failed" | "aborted"
    dropped_handshakes, \* control datagrams dropped so far (fds.len() != 1)
    handshake,          \* the last control datagram received and what the loop did with it
    sessions,           \* session slot -> state of handle_escalate_session_with_policy
    exec_call,          \* the EscalateServer::exec call that started the loop
    \* ---- web-server approvals (approval_manager.rs, handlers/mod.rs) ----
    pending_approvals,  \* WebServerState.pending_approvals: approval id -> context
    channels,           \* the one-shot channels created by stream_events
    next_chan,          \* the next channel to be created
    streams,            \* thread -> state of its stream_events generator
    now,                \* Instant::now(), in ticks
    ok_responses,       \* approval id -> respond_to_approval calls that returned Ok
                        \*                since the id was last registered
    last_response,      \* the last respond_to_approval call: what it found and what it did
    \* ---- apply_patch approvals and the orchestrator (apply_patch.rs) ----
    calls,              \* tool call -> state of its attempt
    prompts,            \* the ApplyPatchApprovalRequest prompts emitted so far
    next_prompt,        \* the next prompt to be emitted
    approval_cache,     \* (tool, key) pairs cached as ApprovedForSession
    in_flight,          \* key -> the prompt an unanswered request for it waits on
    session_answers,    \* (key, had retry reason) pairs the user answered ApprovedForSession
    \* ---- exec pipeline and the /api/v2/commands handler ----
    exec,               \* the attempt's child and its ExecToolCallOutput so far
    response,           \* what execute_command answered
    \* ---- child environments and commands (apply_patch.rs, escalate_server.rs) ----
    host,               \* the server process: its environment, executable and file system
    launch,             \* the command and environment assembled for a child
    \* ---- SSE streams (handlers/mod.rs, state.rs, event_stream.rs) ----
    active_streams,     \* SessionStore.active_streams: thread -> count of streams
    store_calls,        \* thread -> the store calls applied since it became present
    sse,                \* SSE connection -> state of its stream_events generator
    thread_events       \* thread -> the events it produced and how many were taken

escVars == <<server_loop, dropped_handshakes, handshake, sessions, exec_call>>

apprVars ==
    <<pending_approvals, channels, next_chan, streams, now, ok_responses, last_response>>

patchVars == <<calls, prompts, next_prompt, approval_cache, in_flight, session_answers>>

execVars == <<exec, response>>

launchVars == <<host, launch>>

sseVars == <<active_streams, store_calls, sse, thread_events>>

vars == <<escVars, apprVars, patchVars, execVars, launchVars, sseVars>>

(***************************************************************************)
(* Bounds                                                                  *)
(***************************************************************************)
MaxDropped == 1
MaxFds == 2
MaxFdNum == 2
MaxArgv == 2
MaxChannels == 2
MaxClock == 3
TimeoutTicks == 2

SessionIds == {"s1", "s2"}

\* The slot the loop hands out first.
FirstSession == "s1"

(***************************************************************************)
(* Escalation IPC: wire types                                              *)
(***************************************************************************)
Reasons == {"not allowed"}

NoAction == [kind |-> "None", reason |-> ""]

\* escalate_protocol::EscalateAction
EscalateAction ==
    {[kind |-> "Run", reason |-> ""], [kind |-> "Escalate", reason |-> ""]}
        \cup {[kind |-> "Deny", reason |-> r] : r \in Reasons}

FdNums == 0..MaxFdNum

SeqsUpTo(S, n) == UNION {[1..k -> S] : k \in 0..n}

\* SuperExecMessage.fds: the destination descriptor numbers named by the client.
MsgFdLists == SeqsUpTo(FdNums, MaxFds)

\* The ancillary descriptors the kernel installs: pairwise distinct raw numbers.
AncFdLists ==
    {f \in SeqsUpTo(FdNums, MaxFds) : \A i, j \in DOMAIN f : i # j => f[i] # f[j]}

\* The descriptor lists sent when two sessions run side by side: none, or one of
\* stdin and stdout.
ConcurrentFdLists == {<<>>, <<0>>, <<1>>}

\* std::process::ExitStatus of the escalated child.
ExitStatuses ==
    {[has_code |-> TRUE, code |-> c, signal |-> 0] : c \in {0, 42}}
        \cup {[has_code |-> FALSE, code |-> 0, signal |-> 9]}

\* EscalateRequest.workdir as sent: an absolute and a relative path.
Workdirs == {"/work", "work"}

\* EscalateRequest.env
Envs == {"PATH=/bin", "PATH=/usr/bin"}

\* The directory the server process runs in.
ServerCwd == "srv"

\* EscalateRequest as far as the session reads it; argv is Argv(argv_len).
EscalateRequests == [argv_len : 0..MaxArgv, workdir : Workdirs, env : Envs]

\* The requests sent when two sessions run side by side: an empty and a one-element
\* argv, one workdir, one env.
ConcurrentRequests ==
    {r \in EscalateRequests :
        r.argv_len <= 1 /\ r.workdir = "/work" /\ r.env = "PATH=/bin"}

NoRequest == [argv_len |-> 0, workdir |-> "", env |-> ""]

\* EscalateRequest.argv: the n arguments, each one identified by its position.
Argv(n) == [i \in 1..n |-> i]

\* PathBuf::from(&workdir).absolutize(): a relative path is resolved against the
\* current directory, an absolute one is kept.
absolutize(path) ==
    IF path = "/work" THEN <<"/", "work">> ELSE <<"/", ServerCwd, path>>

\* The Command the session builds: arg0, args, envs, current_dir.
NoChild == [arg0 |-> 0, args |-> <<>>, env |-> "", cwd |-> <<>>]

\* Command::new(file).args(&argv[1..]).arg0(argv[0]).envs(&env).current_dir(&workdir)
Command(req) ==
    [arg0 |-> Argv(req.argv_len)[1],
     args |-> SubSeq(Argv(req.argv_len), 2, req.argv_len),
     env |-> req.env,
     cwd |-> absolutize(req.workdir)]

\* msg.fds names the same destination descriptor more than once.
DuplicateDestinations(msg) == \E i, j \in DOMAIN msg : i # j /\ msg[i] = msg[j]

NoStatus == [has_code |-> TRUE, code |-> 0, signal |-> 0]

UnusedSession ==
    [pc |-> "unused",
     after_failure |-> FALSE,   \* another session had already failed when this one began
     req |-> NoRequest,
     req_received |-> 0,        \* EscalateRequest messages received
     action |-> NoAction,       \* what determine_action returned
     resp_sent |-> 0,           \* EscalateResponse messages sent
     resp_action |-> NoAction,  \* the action the response carried
     super_received |-> 0,      \* SuperExecMessage messages received
     msg_len |-> 0,             \* msg.fds.len()
     anc_len |-> 0,             \* fds.len() (ancillary)
     overlap |-> FALSE,         \* a destination in msg.fds is a received descriptor
     msg_dups |-> FALSE,        \* msg.fds names a destination more than once
     clobbered |-> FALSE,       \* pre_exec of the child: a dup2 read an overwritten descriptor
     spawn_failed |-> FALSE,    \* command.spawn() returned Err
     spawned |-> 0,             \* child processes spawned on the host
     child |-> NoChild,         \* how the child was launched
     status |-> NoStatus,       \* the ExitStatus child.wait() returned
     exit_code |-> 0,
     result_sent |-> 0,         \* SuperExecResult messages sent
     result_code |-> 0]

SessionEnded(s) == sessions[s].pc \in {"ok", "err", "panicked"}

SessionFailed(s) == sessions[s].pc \in {"err", "panicked"}

\* The session function returns (Ok or Err) or unwinds (a panic).
Ended(rec, how) == [rec EXCEPT !.pc = how]

\* Faulty variant: a child without an exit code is reported with the lossy default -1.
ExitCodeOf_no_code_is_minus_one(st) == IF st.has_code THEN st.code ELSE -1

\* exit_status.code().unwrap_or(127)
ExitCodeOf(st) == IF st.has_code THEN st.code ELSE 127

\* Faulty variant: a destination is compared with the descriptor of its own pair only.
OverlappingFds_same_pair_only(msg, fds) ==
    \E i \in DOMAIN msg \cap DOMAIN fds : fds[i] = msg[i]

\* msg.fds.iter().any(|src_fd| fds.iter().any(|dst_fd| dst_fd.as_raw_fd() == *src_fd))
OverlappingFds(msg, fds) ==
    \E i \in DOMAIN msg : \E j \in DOMAIN fds : fds[j] = msg[i]

(***************************************************************************)
(* handle_escalate_session_with_policy, one action per suspension point    *)
(***************************************************************************)
\* Faulty variant: the loop awaits the session itself, so that a receive error in the
\* session ends the loop.
session_receive_request_error_ends_loop(s, req) ==
    /\ sessions[s].pc = "recv_request"
    /\ \/ /\ sessions' = [sessions EXCEPT ![s] = Ended(@, "err")]
          /\ server_loop' = "failed"
       \/ /\ \E abs_ok \in BOOLEAN :
                LET got == [sessions[s] EXCEPT !.req = req, !.req_received = @ + 1]
                IN  sessions' = [sessions EXCEPT ![s] =
                        IF abs_ok THEN [got EXCEPT !.pc = "policy"] ELSE Ended(got, "err")]
          /\ UNCHANGED server_loop
    /\ UNCHANGED <<dropped_handshakes, handshake, exec_call, apprVars, patchVars, execVars, launchVars, sseVars>>

\* socket.receive::<EscalateRequest>().await?, then absolutize()? of file and workdir
session_receive_request(s, req) ==
    /\ sessions[s].pc = "recv_request"
    /\ \/ sessions' = [sessions EXCEPT ![s] = Ended(@, "err")]
       \/ \E abs_ok \in BOOLEAN :
             LET got == [sessions[s] EXCEPT !.req = req, !.req_received = @ + 1]
             IN  sessions' = [sessions EXCEPT ![s] =
                     IF abs_ok THEN [got EXCEPT !.pc = "policy"] ELSE Ended(got, "err")]
    /\ UNCHANGED <<server_loop, dropped_handshakes, handshake, exec_call, apprVars, patchVars, execVars, launchVars, sseVars>>

\* policy.determine_action(file, &argv, &workdir).await?
session_determine_action(s) ==
    /\ sessions[s].pc = "policy"
    /\ \/ sessions' = [sessions EXCEPT ![s] = Ended(@, "err")]
       \/ \E a \in EscalateAction :
             sessions' = [sessions EXCEPT ![s].action = a, ![s].pc = "send_response"]
    /\ UNCHANGED <<server_loop, dropped_handshakes, handshake, exec_call, apprVars, patchVars, execVars, launchVars, sseVars>>

\* Faulty variant: only the Run arm ends the session; Deny falls into the Escalate arm.
session_send_response_deny_falls_through(s) ==
    /\ sessions[s].pc = "send_response"
    /\ \/ sessions' = [sessions EXCEPT ![s] = Ended(@, "err")]
       \/ LET sent == [sessions[s] EXCEPT !.resp_sent = @ + 1,
                                          !.resp_action = sessions[s].action]
          IN  sessions' = [sessions EXCEPT ![s] =
                  IF sessions[s].action.kind # "Run"
                  THEN [sent EXCEPT !.pc = "recv_super"]
                  ELSE Ended(sent, "ok")]
    /\ UNCHANGED <<server_loop, dropped_handshakes, handshake, exec_call, apprVars, patchVars, execVars, launchVars, sseVars>>

\* match action { .. socket.send(EscalateResponse { action }).await? .. }
session_send_response(s) ==
    /\ sessions[s].pc = "send_response"
    /\ \/ sessions' = [sessions EXCEPT ![s] = Ended(@, "err")]
       \/ LET sent == [sessions[s] EXCEPT !.resp_sent = @ + 1,
                                          !.resp_action = sessions[s].action]
          IN  sessions' = [sessions EXCEPT ![s] =
                  IF sessions[s].action.kind = "Escalate"
                  THEN [sent EXCEPT !.pc = "recv_super"]
                  ELSE Ended(sent, "ok")]
    /\ UNCHANGED <<server_loop, dropped_handshakes, handshake, exec_call, apprVars, patchVars, execVars, launchVars, sseVars>>

\* The child's descriptor table when pre_exec starts: descriptor n holds the j-th
\* received descriptor when n is its raw number, and something else (0) otherwise.
ReceivedFds(fds) ==
    [n \in FdNums |-> IF \E j \in DOMAIN fds : fds[j] = n
                      THEN CHOOSE j \in DOMAIN fds : fds[j] = n
                      ELSE 0]

\* for (dst_fd, src_fd) in msg.fds.iter().zip(&fds) { dup2(src_fd, *dst_fd) }: the
\* table after the first k pairs.
RECURSIVE pre_exec(_, _, _)
pre_exec(msg, fds, k) ==
    IF k = 0 THEN ReceivedFds(fds)
    ELSE LET table == pre_exec(msg, fds, k - 1)
         IN  [table EXCEPT ![msg[k]] = table[fds[k]]]

\* A dup2 of pre_exec read a descriptor that an earlier pair had overwritten.
Clobbered(msg, fds) ==
    \E k \in DOMAIN msg \cap DOMAIN fds : pre_exec(msg, fds, k - 1)[fds[k]] # k

\* The session after receive_with_fds returned (msg, fds).
ReceivedSuperExec(rec, msg, fds) ==
    [rec EXCEPT !.super_received = @ + 1,
                !.msg_len = Len(msg),
                !.anc_len = Len(fds),
                !.overlap = OverlappingFds(msg, fds),
                !.msg_dups = DuplicateDestinations(msg)]

\* Command::new(file) .. command.spawn()?: &argv[1..] and argv[0] panic on an empty
\* argv; spawn() may fail.
spawn_command(s, got) ==
    IF got.req.argv_len = 0
    THEN sessions' = [sessions EXCEPT ![s] = Ended(got, "panicked")]
    ELSE \/ sessions' = [sessions EXCEPT ![s] =
                Ended([got EXCEPT !.spawn_failed = TRUE], "err")]
         \/ sessions' = [sessions EXCEPT ![s] =
                [got EXCEPT !.pc = "wait_child", !.spawned = @ + 1,
                            !.child = Command(got.req)]]

\* Faulty variant: the fds.len() != msg.fds.len() check is missing.
session_receive_super_exec_no_count_check(s, msg, fds) ==
    /\ sessions[s].pc = "recv_super"
    /\ \/ /\ msg = <<>> /\ fds = <<>>
          /\ sessions' = [sessions EXCEPT ![s] = Ended(@, "err")]
       \/ LET got == ReceivedSuperExec(sessions[s], msg, fds)
          IN  IF OverlappingFds(msg, fds)
              THEN sessions' = [sessions EXCEPT ![s] = Ended(got, "err")]
              ELSE spawn_command(s, [got EXCEPT !.clobbered = Clobbered(msg, fds)])
    /\ UNCHANGED <<server_loop, dropped_handshakes, handshake, exec_call, apprVars, patchVars, execVars, launchVars, sseVars>>

\* Faulty variant: the command is spawned first and the two checks come after it.
session_receive_super_exec_spawns_before_checks(s, msg, fds) ==
    /\ sessions[s].pc = "recv_super"
    /\ \/ /\ msg = <<>> /\ fds = <<>>
          /\ sessions' = [sessions EXCEPT ![s] = Ended(@, "err")]
       \/ LET got == ReceivedSuperExec(sessions[s], msg, fds)
              child == [got EXCEPT !.spawned = @ + 1, !.child = Command(got.req),
                                   !.clobbered = Clobbered(msg, fds)]
          IN  IF got.req.argv_len = 0
              THEN sessions' = [sessions EXCEPT ![s] = Ended(got, "panicked")]
              ELSE IF Len(fds) # Len(msg) \/ OverlappingFds(msg, fds)
              THEN sessions' = [sessions EXCEPT ![s] = Ended(child, "err")]
              ELSE sessions' = [sessions EXCEPT ![s] = [child EXCEPT !.pc = "wait_child"]]
    /\ UNCHANGED <<server_loop, dropped_handshakes, handshake, exec_call, apprVars, patchVars, execVars, launchVars, sseVars>>

\* receive_with_fds::<SuperExecMessage>() (which may fail, nothing being received),
\* the two checks, Command::new .. spawn()
session_receive_super_exec(s, msg, fds) ==
    /\ sessions[s].pc = "recv_super"
    /\ \/ /\ msg = <<>> /\ fds = <<>>
          /\ sessions' = [sessions EXCEPT ![s] = Ended(@, "err")]
       \/ LET got == ReceivedSuperExec(sessions[s], msg, fds)
          IN  IF Len(fds) # Len(msg) \/ OverlappingFds(msg, fds)
              THEN sessions' = [sessions EXCEPT ![s] = Ended(got, "err")]
              ELSE spawn_command(s, [got EXCEPT !.clobbered = Clobbered(msg, fds)])
    /\ UNCHANGED <<server_loop, dropped_handshakes, handshake, exec_call, apprVars, patchVars, execVars, launchVars, sseVars>>

\* child.wait().await?; exit_status.code().unwrap_or(127)
session_wait_child(s) ==
    /\ sessions[s].pc = "wait_child"
    /\ \/ sessions' = [sessions EXCEPT ![s] = Ended(@, "err")]
       \/ \E st \in ExitStatuses :
             sessions' = [sessions EXCEPT ![s].exit_code = ExitCodeOf(st),
                                          ![s].status = st,
                                          ![s].pc = "send_result"]
    /\ UNCHANGED <<server_loop, dropped_handshakes, handshake, exec_call, apprVars, patchVars, execVars, launchVars, sseVars>>

\* socket.send(SuperExecResult { exit_code }).await?; Ok(())
session_send_result(s) ==
    /\ sessions[s].pc = "send_result"
    /\ \/ sessions' = [sessions EXCEPT ![s] = Ended(@, "err")]
       \/ sessions' = [sessions EXCEPT ![s] =
              Ended([sessions[s] EXCEPT !.result_sent = @ + 1,
                                        !.result_code = sessions[s].exit_code], "ok")]
    /\ UNCHANGED <<server_loop, dropped_handshakes, handshake, exec_call, apprVars, patchVars, execVars, launchVars, sseVars>>

(***************************************************************************)
(* escalate_task: the server loop                                          *)
(***************************************************************************)
\* What the loop did with a control datagram carrying n descriptors.
Handshake(n, started, loop_after) ==
    [received |-> TRUE, fds |-> n, sessions_started |-> started, loop_after |-> loop_after]

NoHandshake == [received |-> FALSE, fds |-> 0, sessions_started |-> 0, loop_after |-> "running"]

escalate_task ==
    /\ server_loop = "running"
    /\ \/ \* socket.receive_with_fds().await? fails: `?` ends the loop
          /\ server_loop' = "failed"
          /\ UNCHANGED <<dropped_handshakes, handshake, sessions, exec_call, apprVars, patchVars, execVars, launchVars, sseVars>>
       \/ \* fds.len() != 1: log and continue
          /\ dropped_handshakes < MaxDropped
          /\ \E n \in (0..MaxFds) \ {1} :
                handshake' = Handshake(n, 0, "running")
          /\ dropped_handshakes' = dropped_handshakes + 1
          /\ UNCHANGED <<server_loop, sessions, exec_call, apprVars, patchVars, execVars, launchVars, sseVars>>
       \/ \* exactly one fd, AsyncSocket::from_fd(fd)? fails: `?` ends the loop
          /\ server_loop' = "failed"
          /\ handshake' = Handshake(1, 0, "failed")
          /\ UNCHANGED <<dropped_handshakes, sessions, exec_call, apprVars, patchVars, execVars, launchVars, sseVars>>
       \/ \* exactly one fd: spawn an independent session on it
          /\ \E s \in SessionIds :
                /\ sessions[s].pc = "unused"
                /\ s # FirstSession => sessions[FirstSession].pc # "unused"
                /\ sessions' = [sessions EXCEPT
                       ![s].pc = "recv_request",
                       ![s].after_failure = \E t \in SessionIds : SessionFailed(t)]
          /\ handshake' = Handshake(1, 1, "running")
          /\ UNCHANGED <<server_loop, dropped_handshakes, exec_call, apprVars, patchVars, execVars, launchVars, sseVars>>

(***************************************************************************)
(* EscalateServer::exec: the end of the call that started the loop         *)
(***************************************************************************)
\* What process_exec_tool_call(..).await gives: the output of the command, or an error
\* (a timeout or a cancellation is Err(Sandbox::Timeout { output })).
ExecToolCallResults == {"Ok", "Timeout", "Io"}

\* let result = process_exec_tool_call(..).await?; escalate_task.abort(); Ok(result):
\* on Err, `?` returns at once and the JoinHandle is dropped, which detaches the task.
EscalateServer_exec_returns(result) ==
    /\ exec_call = "running"
    /\ exec_call' = IF result = "Ok" THEN "ok" ELSE "err"
    /\ server_loop' = IF result = "Ok" /\ server_loop = "running" THEN "aborted"
                      ELSE server_loop
    /\ UNCHANGED <<dropped_handshakes, handshake, sessions, apprVars, patchVars, execVars, launchVars, sseVars>>

(***************************************************************************)
(* Claims about the escalation IPC                                         *)
(***************************************************************************)
\* C1 (as claimed): every session that received an EscalateRequest sends exactly one
\* EscalateResponse, never zero and never two, whatever absolutize() and
\* determine_action return.
C1_ExactlyOneResponse ==
    \A s \in SessionIds :
        /\ sessions[s].resp_sent <= 1
        /\ (SessionEnded(s) /\ sessions[s].req_received = 1) => sessions[s].resp_sent = 1

\* C2 (as claimed): every session whose policy action is Escalate receives exactly one
\* SuperExecMessage, sends exactly one SuperExecResult, and the ancillary fd count
\* equals the length of the message's fds list.
C2_Original ==
    \A s \in SessionIds :
        (SessionEnded(s) /\ sessions[s].action.kind = "Escalate") =>
            /\ sessions[s].super_received = 1
            /\ sessions[s].result_sent = 1
            /\ sessions[s].anc_len = sessions[s].msg_len

\* C2 (amended): in a session whose policy action is Escalate at most one
\* SuperExecMessage is received and at most one SuperExecResult is sent; a
\* SuperExecResult is sent only after exactly one SuperExecMessage whose ancillary fd
\* count equals the length of its fds list; and a session that ends successfully has
\* exchanged exactly one of each, with equal counts.
C2_EscalateExchange ==
    \A s \in SessionIds :
        sessions[s].action.kind = "Escalate" =>
            /\ sessions[s].super_received <= 1
            /\ sessions[s].result_sent <= 1
            /\ (sessions[s].result_sent = 1 \/ sessions[s].pc = "ok") =>
                   /\ sessions[s].super_received = 1
                   /\ sessions[s].result_sent = 1
                   /\ sessions[s].anc_len = sessions[s].msg_len

C2_Witness ==
    \E s \in SessionIds :
        /\ sessions[s].pc = "ok"
        /\ sessions[s].action.kind = "Escalate"
        /\ sessions[s].result_sent = 1
        /\ sessions[s].msg_len = MaxFds
        /\ sessions[s].anc_len = MaxFds

\* C3 (as claimed): when the policy action is Run or Deny{reason} the server replies
\* with an EscalateResponse carrying exactly that action, spawns no child, exchanges no
\* further message, and the session ends successfully.
C3_Original ==
    \A s \in SessionIds :
        (SessionEnded(s) /\ sessions[s].action.kind \in {"Run", "Deny"}) =>
            /\ sessions[s].resp_sent = 1
            /\ sessions[s].resp_action = sessions[s].action
            /\ sessions[s].spawned = 0
            /\ sessions[s].super_received = 0
            /\ sessions[s].result_sent = 0
            /\ sessions[s].pc = "ok"

\* C3 (amended): when the policy action is Run or Deny{reason} the session spawns no
\* child and reads no SuperExecMessage and sends no SuperExecResult; it sends at most
\* one EscalateResponse, which carries exactly that action (reason included); and it
\* ends successfully exactly when that send succeeded (a failed send ends the session
\* with an error).
C3_RunOrDenyStopsThere ==
    \A s \in SessionIds :
        sessions[s].action.kind \in {"Run", "Deny"} =>
            /\ sessions[s].spawned = 0
            /\ sessions[s].super_received = 0
            /\ sessions[s].result_sent = 0
            /\ sessions[s].pc \in {"send_response", "ok", "err"}
            /\ sessions[s].resp_sent <= 1
            /\ sessions[s].resp_sent = 1 => sessions[s].resp_action = sessions[s].action
            /\ SessionEnded(s) => (sessions[s].pc = "ok" <=> sessions[s].resp_sent = 1)

C3_Witness ==
    \E s \in SessionIds :
        /\ sessions[s].pc = "ok"
        /\ sessions[s].action.kind = "Deny"
        /\ sessions[s].resp_sent = 1
        /\ sessions[s].resp_action = sessions[s].action

\* C11: a failure inside one escalation session (broken socket, protocol error, spawn
\* failure) ends that session only: the step in which a session fails leaves the
\* server loop, what it did with the last handshake, and every other session as they
\* were, so the loop goes on accepting handshakes and the other sessions complete.
C11_SessionFailureIsLocal ==
    [][\A s \in SessionIds :
          (~SessionFailed(s) /\ SessionFailed(s)') =>
              /\ server_loop' = server_loop
              /\ handshake' = handshake
              /\ \A t \in SessionIds \ {s} : sessions'[t] = sessions[t]]_vars

C11_Witness ==
    \E s, t \in SessionIds :
        /\ sessions[s].pc = "err"
        /\ sessions[s].super_received = 1
        /\ sessions[t].after_failure
        /\ sessions[t].pc = "ok"
        /\ sessions[t].result_sent = 1
        /\ server_loop = "running"

\* C12 as stated: in an Escalate session, a SuperExecMessage whose ancillary fd count
\* differs from the length of its fds list ends the session with an error, without a
\* child and without a SuperExecResult; with equal counts (both zero included) the
\* session goes on to spawn the child.  Equal counts do not suffice: the overlap check
\* comes next, and an empty argv makes the session panic before the spawn.
C12_Original ==
    \A s \in SessionIds :
        sessions[s].super_received = 1 =>
            /\ sessions[s].anc_len # sessions[s].msg_len =>
                  /\ sessions[s].pc = "err"
                  /\ sessions[s].spawned = 0
                  /\ sessions[s].result_sent = 0
            /\ sessions[s].anc_len = sessions[s].msg_len =>
                  (sessions[s].spawned = 1 \/ sessions[s].spawn_failed)

\* C12 (amended): a count mismatch ends the session with an error, without a child and
\* without a SuperExecResult; a child is spawned only with equal counts; with equal
\* counts (both zero included) the session goes on to the overlap check, and it spawns
\* the child if no destination is a received descriptor and argv is not empty; on an
\* overlap it ends with an error, and on an empty argv it panics, without a child.
C12_CountCheck ==
    \A s \in SessionIds :
        sessions[s].super_received = 1 =>
            /\ sessions[s].anc_len # sessions[s].msg_len =>
                  /\ sessions[s].pc = "err"
                  /\ sessions[s].spawned = 0
                  /\ sessions[s].result_sent = 0
            /\ sessions[s].spawned = 1 => sessions[s].anc_len = sessions[s].msg_len
            /\ (sessions[s].anc_len = sessions[s].msg_len /\ sessions[s].overlap) =>
                  (sessions[s].pc = "err" /\ sessions[s].spawned = 0)
            /\ (sessions[s].anc_len = sessions[s].msg_len /\ ~sessions[s].overlap) =>
                  IF sessions[s].req.argv_len = 0
                  THEN sessions[s].pc = "panicked" /\ sessions[s].spawned = 0
                  ELSE sessions[s].spawned = 1 \/ sessions[s].spawn_failed

C12_Witness ==
    \E s \in SessionIds :
        /\ sessions[s].super_received = 1
        /\ sessions[s].msg_len = 0
        /\ sessions[s].anc_len = 0
        /\ sessions[s].spawned = 1
        /\ sessions[s].pc = "ok"

\* C13: in an Escalate session a SuperExecMessage whose fds list names the same
\* destination descriptor more than once is rejected: the session ends with an error,
\* no child is spawned and no SuperExecResult is sent.
C13_DuplicateDestinationsRejected ==
    \A s \in SessionIds :
        (sessions[s].super_received = 1 /\ sessions[s].msg_dups) =>
            /\ sessions[s].pc = "err"
            /\ sessions[s].spawned = 0
            /\ sessions[s].result_sent = 0

C15_HandshakeFdCount ==
    handshake.received =>
        /\ handshake.fds # 1 =>
              (handshake.sessions_started = 0 /\ handshake.loop_after = "running")
        /\ handshake.fds = 1 =>
              (handshake.sessions_started = 1 /\ handshake.loop_after = "running")

\* C16: policy evaluation in a session is total: for every EscalateRequest, one with
\* an empty argv or a relative workdir included, the session reaches a decision among
\* Run, Escalate and Deny, and never panics or ends without a decision.
C16_PolicyTotal ==
    \A s \in SessionIds :
        /\ sessions[s].pc # "panicked"
        /\ (SessionEnded(s) /\ sessions[s].req_received = 1) =>
              sessions[s].action.kind \in {"Run", "Escalate", "Deny"}

\* C32: within one escalation session the steps occur in a fixed order: the policy is
\* consulted before any response is sent; the EscalateResponse (Escalate) is sent
\* before the SuperExecMessage is read; the child is spawned only after the fd-count
\* and overlap checks have passed; and the SuperExecResult is sent only after the
\* child has exited (never while the session still waits for it).
C32_FixedOrder ==
    \A s \in SessionIds :
        LET r == sessions[s]
        IN  /\ r.resp_sent > 0 => (r.action # NoAction /\ r.resp_action = r.action)
            /\ r.pc \in {"recv_request", "policy"} => r.resp_sent = 0
            /\ r.super_received > 0 =>
                  (r.resp_sent = 1 /\ r.resp_action.kind = "Escalate")
            /\ r.pc \in {"recv_request", "policy", "send_response"} => r.super_received = 0
            /\ r.spawned > 0 =>
                  (r.super_received = 1 /\ r.anc_len = r.msg_len /\ ~r.overlap)
            /\ r.result_sent > 0 => r.spawned = 1
            /\ r.pc \in {"recv_request", "policy", "send_response", "recv_super",
                         "wait_child"} => r.result_sent = 0

\* A session that went through every step: two descriptors passed, the child killed by
\* a signal, the result sent.
C32_Witness ==
    \E s \in SessionIds :
        /\ sessions[s].pc = "ok"
        /\ sessions[s].resp_sent = 1
        /\ sessions[s].super_received = 1
        /\ sessions[s].anc_len = 2
        /\ sessions[s].spawned = 1
        /\ ~sessions[s].status.has_code
        /\ sessions[s].result_sent = 1

\* C33: in an Escalate session a SuperExecMessage in which a destination descriptor
\* number equals the number of any of the descriptors received with it is rejected
\* before a child is spawned, so that every dup2 of pre_exec reads the descriptor that
\* was received for its pair: none has been overwritten by an earlier pair.
C33_OverlapRejected ==
    \A s \in SessionIds :
        /\ (sessions[s].super_received = 1 /\ sessions[s].overlap) =>
              (sessions[s].pc = "err" /\ sessions[s].spawned = 0)
        /\ sessions[s].spawned = 1 => ~sessions[s].clobbered

\* A message whose counts agree and in which a destination is a received descriptor
\* was rejected by the overlap check: the session ended with an error, without a child.
C33_Witness ==
    /\ sessions[FirstSession].super_received = 1
    /\ sessions[FirstSession].msg_len = 2
    /\ sessions[FirstSession].anc_len = 2
    /\ sessions[FirstSession].overlap
    /\ sessions[FirstSession].pc = "err"
    /\ sessions[FirstSession].spawned = 0

\* C34: after EscalateServer::exec returns, with Ok or with an error of the exec
\* pipeline (a timeout or a cancellation included), the escalation server loop it
\* started is no longer running.
C34_LoopStopsWithExec ==
    exec_call # "running" => server_loop # "running"

(***************************************************************************)
(* Web-server approvals: the pending map, the one-shot channels, the       *)
(* stream_events generator and its waiter tasks                            *)
(***************************************************************************)
ApprovalIds == {"call-1", "call-2"}

ThreadIds == {"t1", "t2"}

\* state::ApprovalDecision
ApprovalDecision == {"Approve", "Decline"}

ChanIds == 1..MaxChannels

NoCtx == [chan |-> 0, thread_id |-> "", created_at |-> 0, timeout |-> 0]

\* state::ApprovalContext { thread_id, response_channel, created_at, timeout, .. }
ApprovalContext(ch, th, at) ==
    [chan |-> ch, thread_id |-> th, created_at |-> at, timeout |-> TimeoutTicks]

\* tokio::sync::oneshot::channel(): the sender is in the context, the receiver is held
\* by the generator until the waiter task takes it.
NewChannel == [tx |-> "held", rx |-> "stream", delivered |-> 0, value |-> "", op |-> "none"]

UnusedChannel == [tx |-> "none", rx |-> "none", delivered |-> 0, value |-> "", op |-> "none"]

\* ctx.created_at.elapsed() >= ctx.timeout
Expired(ctx) == now - ctx.created_at >= ctx.timeout

\* Dropping a context drops its Sender without a send.
DropSenders(chs, dropped) ==
    [c \in ChanIds |->
        IF c \in dropped /\ chs[c].tx = "held" THEN [chs[c] EXCEPT !.tx = "dropped"]
        ELSE chs[c]]

\* Faulty variant: the SSE event is yielded while the insert is still to come.
stream_register_approval_yields_before_insert(th, id) ==
    /\ streams[th].pc = "next_event"
    /\ next_chan <= MaxChannels
    /\ channels' = [channels EXCEPT ![next_chan] = NewChannel]
    /\ next_chan' = next_chan + 1
    /\ streams' = [streams EXCEPT ![th] = [pc |-> "yield", rx |-> next_chan]]
    /\ UNCHANGED <<pending_approvals, ok_responses, now, last_response, escVars, patchVars, execVars, launchVars, sseVars>>

\* stream_events, EventMsg::ExecApprovalRequest / ApplyPatchApprovalRequest: create the
\* channel and insert the context under approval_id = ev.call_id, then yield the SSE event.
stream_register_approval(th, id) ==
    /\ streams[th].pc = "next_event"
    /\ next_chan <= MaxChannels
    /\ LET old == pending_approvals[id]
       IN  /\ pending_approvals' =
                 [pending_approvals EXCEPT ![id] = ApprovalContext(next_chan, th, now)]
           /\ channels' = [DropSenders(channels, {old.chan} \ {0})
                              EXCEPT ![next_chan] = NewChannel]
    /\ next_chan' = next_chan + 1
    /\ streams' = [streams EXCEPT ![th] = [pc |-> "yield", rx |-> next_chan]]
    /\ ok_responses' = [ok_responses EXCEPT ![id] = 0]
    /\ UNCHANGED <<now, last_response, escVars, patchVars, execVars, launchVars, sseVars>>

\* After the yield the generator is polled again: tokio::spawn of the waiter, which owns rx.
stream_spawn_waiter(th) ==
    /\ streams[th].pc = "yield"
    /\ channels' = [channels EXCEPT ![streams[th].rx].rx = "waiter"]
    /\ streams' = [streams EXCEPT ![th] = [pc |-> "next_event", rx |-> 0]]
    /\ UNCHANGED <<pending_approvals, next_chan, now, ok_responses, last_response, escVars, patchVars, execVars, launchVars, sseVars>>

\* The client disconnects: axum drops the generator; a receiver it still holds is dropped.
stream_dropped(th) ==
    /\ streams[th].pc \in {"next_event", "yield"}
    /\ channels' = IF streams[th].pc = "yield"
                   THEN [channels EXCEPT ![streams[th].rx].rx = "dropped"]
                   ELSE channels
    /\ streams' = [streams EXCEPT ![th] = [pc |-> "closed", rx |-> 0]]
    /\ UNCHANGED <<pending_approvals, next_chan, now, ok_responses, last_response, escVars, patchVars, execVars, launchVars, sseVars>>

\* The waiter task: match rx.await { Ok(response) => submit(decision), Err(_) => submit(Denied) }
waiter_resume(c) ==
    /\ channels[c].rx = "waiter"
    /\ channels[c].tx \in {"sent", "dropped"}
    /\ channels' = [channels EXCEPT ![c].rx = "done",
                                    ![c].op = IF channels[c].tx = "sent"
                                                 /\ channels[c].value = "Approve"
                                              THEN "Approved" ELSE "Denied"]
    /\ UNCHANGED <<pending_approvals, next_chan, streams, now, ok_responses, last_response, escVars, patchVars, execVars, launchVars, sseVars>>

\* The result of ApprovalManager::respond_to_approval(approval_id, decision).
RespondResult(id) ==
    LET ctx == pending_approvals[id]
    IN  IF ctx = NoCtx THEN "not_found"
        ELSE IF Expired(ctx) THEN "timed_out"
        ELSE IF channels[ctx.chan].rx \in {"stream", "waiter"} THEN "ok"
        ELSE "send_failed"

\* handlers::approvals::respond_to_approval: the HTTP status for a manager result.
ApiStatus(res) ==
    CASE res = "ok" -> 200
      [] res = "not_found" -> 400
      [] res = "timed_out" -> 400
      [] OTHER -> 500

NoCall ==
    [called |-> FALSE, decision |-> "", was_pending |-> FALSE, expired |-> FALSE,
     waiter_gone |-> FALSE, result |-> "", status |-> 0, removed |-> FALSE,
     map_unchanged |-> FALSE, delivered |-> ""]

\* The record of one respond_to_approval(id, decision) call that returned res: what
\* the call found (before) and what it left behind (after).
CallRecord(id, decision, res, pending_after, channels_after) ==
    LET ctx == pending_approvals[id]
    IN  [called |-> TRUE,
         decision |-> decision,
         was_pending |-> ctx # NoCtx,
         expired |-> ctx # NoCtx /\ Expired(ctx),
         waiter_gone |-> ctx # NoCtx /\ channels[ctx.chan].rx \notin {"stream", "waiter"},
         result |-> res,
         status |-> ApiStatus(res),
         removed |-> pending_after[id] = NoCtx,
         map_unchanged |-> pending_after = pending_approvals,
         delivered |-> IF ctx # NoCtx /\ channels_after[ctx.chan].tx = "sent"
                       THEN channels_after[ctx.chan].value ELSE ""]

\* Faulty variant: the context is looked up with get() and stays in the map.
respond_to_approval_without_remove(id, decision) ==
    LET ctx == pending_approvals[id]
        res == RespondResult(id)
    IN  /\ channels' = IF res = "ok"
                       THEN [channels EXCEPT ![ctx.chan].tx = "sent",
                                             ![ctx.chan].delivered = @ + 1,
                                             ![ctx.chan].value = decision]
                       ELSE channels
        /\ ok_responses' = IF res = "ok" THEN [ok_responses EXCEPT ![id] = @ + 1]
                           ELSE ok_responses
        /\ last_response' = CallRecord(id, decision, res, pending_approvals, channels')
        /\ UNCHANGED <<pending_approvals, next_chan, streams, now, escVars, patchVars, execVars, launchVars, sseVars>>

\* Faulty variant: an id that is not pending is answered Ok.
respond_to_approval_unknown_id_is_ok(id, decision) ==
    LET ctx == pending_approvals[id]
        res == IF ctx = NoCtx THEN "ok" ELSE RespondResult(id)
    IN  /\ pending_approvals' = [pending_approvals EXCEPT ![id] = NoCtx]
        /\ channels' = IF ctx # NoCtx /\ res = "ok"
                       THEN [channels EXCEPT ![ctx.chan].tx = "sent",
                                             ![ctx.chan].delivered = @ + 1,
                                             ![ctx.chan].value = decision]
                       ELSE DropSenders(channels, {ctx.chan} \ {0})
        /\ ok_responses' = IF ctx # NoCtx /\ res = "ok"
                           THEN [ok_responses EXCEPT ![id] = @ + 1]
                           ELSE ok_responses
        /\ last_response' = CallRecord(id, decision, res, pending_approvals', channels')
        /\ UNCHANGED <<next_chan, streams, now, escVars, patchVars, execVars, launchVars, sseVars>>

\* Faulty variant: the decision is sent before the timeout is looked at.
respond_to_approval_sends_before_timeout_check(id, decision) ==
    LET ctx == pending_approvals[id]
        res == RespondResult(id)
        alive == ctx # NoCtx /\ channels[ctx.chan].rx \in {"stream", "waiter"}
    IN  /\ pending_approvals' = [pending_approvals EXCEPT ![id] = NoCtx]
        /\ channels' = IF alive
                       THEN [channels EXCEPT ![ctx.chan].tx = "sent",
                                             ![ctx.chan].delivered = @ + 1,
                                             ![ctx.chan].value = decision]
                       ELSE DropSenders(channels, {ctx.chan} \ {0})
        /\ ok_responses' = IF res = "ok" THEN [ok_responses EXCEPT ![id] = @ + 1]
                           ELSE ok_responses
        /\ last_response' = CallRecord(id, decision, res, pending_approvals', channels')
        /\ UNCHANGED <<next_chan, streams, now, escVars, patchVars, execVars, launchVars, sseVars>>

\* Faulty variant: the result of the send is ignored.
respond_to_approval_ignores_send_error(id, decision) ==
    LET ctx == pending_approvals[id]
        found == RespondResult(id)
        res == IF found = "send_failed" THEN "ok" ELSE found
    IN  /\ pending_approvals' = [pending_approvals EXCEPT ![id] = NoCtx]
        /\ channels' = IF found = "ok"
                       THEN [channels EXCEPT ![ctx.chan].tx = "sent",
                                             ![ctx.chan].delivered = @ + 1,
                                             ![ctx.chan].value = decision]
                       ELSE DropSenders(channels, {ctx.chan} \ {0})
        /\ ok_responses' = IF found = "ok" THEN [ok_responses EXCEPT ![id] = @ + 1]
                           ELSE ok_responses
        /\ last_response' = CallRecord(id, decision, res, pending_approvals', channels')
        /\ UNCHANGED <<next_chan, streams, now, escVars, patchVars, execVars, launchVars, sseVars>>

\* ApprovalManager::respond_to_approval: under the lock, remove the context; timed out ->
\* Err; otherwise send the decision on the one-shot channel.
respond_to_approval(id, decision) ==
    LET ctx == pending_approvals[id]
        res == RespondResult(id)
    IN  /\ pending_approvals' = [pending_approvals EXCEPT ![id] = NoCtx]
        /\ channels' = IF res = "ok"
                       THEN [channels EXCEPT ![ctx.chan].tx = "sent",
                                             ![ctx.chan].delivered = @ + 1,
                                             ![ctx.chan].value = decision]
                       ELSE DropSenders(channels, {ctx.chan} \ {0})
        /\ ok_responses' = IF res = "ok" THEN [ok_responses EXCEPT ![id] = @ + 1]
                           ELSE ok_responses
        /\ last_response' = CallRecord(id, decision, res, pending_approvals', channels')
        /\ UNCHANGED <<next_chan, streams, now, escVars, patchVars, execVars, launchVars, sseVars>>

\* handlers::approvals::respond_to_approval for POST /threads/{thread_id}/approvals/
\* {approval_id}: the thread id is parsed (a valid one here) and not used after that;
\* the manager is called with the approval id and the decision.
approvals_respond_to_approval(thread_id, id, decision) ==
    /\ thread_id \in ThreadIds
    /\ respond_to_approval(id, decision)

\* ApprovalManager::cleanup_expired: retain(|_, ctx| ctx.created_at.elapsed() < ctx.timeout)
cleanup_expired ==
    LET gone == {id \in ApprovalIds :
                    pending_approvals[id] # NoCtx /\ Expired(pending_approvals[id])}
    IN  /\ gone # {}
        /\ pending_approvals' =
              [id \in ApprovalIds |-> IF id \in gone THEN NoCtx ELSE pending_approvals[id]]
        /\ channels' = DropSenders(channels, {pending_approvals[id].chan : id \in gone})
        /\ UNCHANGED <<next_chan, streams, now, ok_responses, last_response, escVars, patchVars, execVars, launchVars, sseVars>>

\* Time passes.
tick ==
    /\ now < MaxClock
    /\ now' = now + 1
    /\ UNCHANGED <<pending_approvals, channels, next_chan, streams, ok_responses, last_response, escVars, patchVars, execVars, launchVars, sseVars>>

\* C4: an approval response is observed at most once: between two registrations of an
\* approval id at most one respond_to_approval call for it returns Ok (every other call
\* returns an error), and no one-shot channel ever receives more than one decision,
\* for every interleaving of respond calls, sweeps, registrations and clock ticks.
C4_AtMostOnce ==
    /\ \A id \in ApprovalIds : ok_responses[id] <= 1
    /\ \A c \in ChanIds : channels[c].delivered <= 1
    /\ \A id \in ApprovalIds :
          ok_responses[id] = 1 => /\ pending_approvals[id] = NoCtx
                                  /\ RespondResult(id) = "not_found"

\* An approval was answered Ok, the waiter has observed the decision, and the id is
\* no longer pending (a further respond call returns not-found).
C4_Witness ==
    \E id \in ApprovalIds, c \in ChanIds :
        /\ ok_responses[id] = 1
        /\ channels[c].delivered = 1
        /\ channels[c].rx = "done"
        /\ channels[c].op = "Approved"
        /\ RespondResult(id) = "not_found"

\* C17: respond_to_approval called with an approval id that is not in the pending map
\* (never registered, already answered, or already swept) returns the not-found error,
\* leaves the pending map unchanged and delivers nothing.
C17_UnknownIdNotFound ==
    (last_response.called /\ ~last_response.was_pending)
        => /\ last_response.result = "not_found"
           /\ last_response.map_unchanged
           /\ last_response.delivered = ""

\* A respond call for an id that was answered before (so it is no longer pending) has
\* returned not-found while the other approval is still pending in the map.
C17_Witness ==
    /\ last_response.called
    /\ ~last_response.was_pending
    /\ last_response.result = "not_found"
    /\ \E id, other \in ApprovalIds :
          /\ ok_responses[id] = 1
          /\ pending_approvals[id] = NoCtx
          /\ pending_approvals[other] # NoCtx

\* C18 as stated: respond_to_approval on a pending context whose elapsed time is at
\* least its timeout returns the timed-out error, removes the context and delivers no
\* decision; when the elapsed time is below the timeout the given decision is the one
\* delivered.
C18_Original ==
    /\ (last_response.called /\ last_response.was_pending /\ last_response.expired)
          => /\ last_response.result = "timed_out"
             /\ last_response.removed
             /\ last_response.delivered = ""
    /\ (last_response.called /\ last_response.was_pending /\ ~last_response.expired)
          => last_response.delivered = last_response.decision

\* C18 (amended): on a pending context whose elapsed time is at least its timeout the
\* call returns the timed-out error, removes the context and delivers no decision;
\* when the elapsed time is below the timeout and the receiver of the one-shot
\* channel has not been dropped, the call returns Ok, removes the context, and the
\* given decision is the one sent on the channel.
C18_TimeoutCheck ==
    /\ (last_response.called /\ last_response.was_pending /\ last_response.expired)
          => /\ last_response.result = "timed_out"
             /\ last_response.removed
             /\ last_response.delivered = ""
    /\ (/\ last_response.called
        /\ last_response.was_pending
        /\ ~last_response.expired
        /\ ~last_response.waiter_gone)
          => /\ last_response.result = "ok"
             /\ last_response.removed
             /\ last_response.delivered = last_response.decision

\* A respond call has found a pending context that had timed out while its waiter was
\* still there to receive: timed-out error, context removed, nothing delivered.
C18_Witness ==
    /\ last_response.called
    /\ last_response.was_pending
    /\ last_response.expired
    /\ ~last_response.waiter_gone
    /\ last_response.result = "timed_out"
    /\ last_response.removed
    /\ last_response.delivered = ""

\* C19: respond_to_approval on a pending, non-expired context whose waiter has already
\* gone (receiver dropped) reports an error that is neither not-found nor timed-out
\* (the handler answers it with another status than theirs), delivers nothing, and
\* the context is removed from the pending map.
C19_WaiterGone ==
    (/\ last_response.called
     /\ last_response.was_pending
     /\ ~last_response.expired
     /\ last_response.waiter_gone)
        => /\ last_response.result = "send_failed"
           /\ last_response.status \notin {200, ApiStatus("not_found"), ApiStatus("timed_out")}
           /\ last_response.removed
           /\ last_response.delivered = ""

\* A respond call has found a pending, non-expired context whose receiver had been
\* dropped with the stream, and has failed to send.
C19_Witness ==
    /\ last_response.called
    /\ last_response.was_pending
    /\ ~last_response.expired
    /\ last_response.waiter_gone
    /\ last_response.result = "send_failed"
    /\ last_response.removed
    /\ \E th \in ThreadIds : streams[th].pc = "closed"

\* C20: every ApprovalContext inserted into the pending map is eventually removed:
\* when a reply arrives or, if no reply ever arrives, by the background sweep after
\* created_at + timeout has elapsed; no context stays in the map forever.
C20_EventuallyRemoved ==
    \A id \in ApprovalIds :
        (pending_approvals[id] # NoCtx) ~> (pending_approvals[id] = NoCtx)

\* C31: for every approval request event processed by stream_events, once its context
\* is answered or dropped a waiter submits the approval Op to the thread: no reply
\* channel whose Sender was used or dropped stays without a submitted Op forever.
C31_WaiterSubmits ==
    \A c \in ChanIds :
        (channels[c].tx \in {"sent", "dropped"}) ~> (channels[c].op # "none")

\* C21: when a pending approval context is removed by the expiry sweep, or otherwise
\* dropped without a reply, its waiter stops waiting and what it then submits differs
\* from what a waiter submits for a user's denial.
C21_DropDistinctFromDenial ==
    \A c, d \in ChanIds :
        (/\ channels[c].rx = "done"
         /\ channels[c].tx = "dropped"
         /\ channels[d].rx = "done"
         /\ channels[d].tx = "sent"
         /\ channels[d].value = "Decline")
            => channels[c].op # channels[d].op

\* C22: every approval registration inserts its context under an approval id that is
\* not currently pending: no registration replaces the context, or drops the reply
\* channel, of an approval that still awaits its response.
C22_RegistersUnderFreshId ==
    [][\A th \in ThreadIds, id \in ApprovalIds :
          stream_register_approval(th, id) => pending_approvals[id] = NoCtx]_vars

\* C29: the approval endpoint answers 404 when no pending approval has the given id,
\* 408 when the approval request has timed out, and 200 only when the decision was
\* delivered.
C29_EndpointStatus ==
    last_response.called =>
        /\ last_response.result = "not_found" => last_response.status = 404
        /\ last_response.result = "timed_out" => last_response.status = 408
        /\ last_response.status = 200
              => last_response.delivered = last_response.decision

\* C30: the approval context is in the pending map before the requestApproval SSE
\* event is emitted: while a stream stands at its yield, the context it registered is
\* pending unless a reply, a sweep or a later registration has taken its Sender.
C30_InsertedBeforeEvent ==
    \A th \in ThreadIds :
        (streams[th].pc = "yield" /\ channels[streams[th].rx].tx = "held")
            => \E id \in ApprovalIds :
                  /\ pending_approvals[id] # NoCtx
                  /\ pending_approvals[id].chan = streams[th].rx
                  /\ RespondResult(id) # "not_found"

\* A reply posted while the stream still stood at the yield of the event (the waiter
\* not yet spawned) was answered Ok and its decision is in the channel.
C30_Witness ==
    \E th \in ThreadIds :
        /\ streams[th].pc = "yield"
        /\ channels[streams[th].rx].tx = "sent"
        /\ last_response.called
        /\ last_response.was_pending
        /\ last_response.result = "ok"
        /\ last_response.delivered = channels[streams[th].rx].value

\* C35: a decision posted to the approval endpoint under thread id T is delivered only
\* to a pending approval whose context belongs to thread T: a request naming another
\* (valid) thread id never resolves that thread's pending approval.
C35_DeliveredWithinThread ==
    [][\A th \in ThreadIds, id \in ApprovalIds, d \in ApprovalDecision :
          (approvals_respond_to_approval(th, id, d) /\ last_response'.result = "ok")
              => pending_approvals[id].thread_id = th]_vars

(***************************************************************************)
(* apply_patch approvals, the approval cache, and the orchestrator's       *)
(* escalate-on-failure retry                                               *)
(***************************************************************************)
CallIds == {"call-a", "call-b"}

\* ApplyPatchRequest.file_paths, the approval key of a patch (structural equality).
FilePaths == {<<"/w/a">>, <<"/w/a", "/w/b">>}

NoKey == <<>>

\* protocol::ReviewDecision as the approval gate uses it.
ReviewDecision == {"Approved", "ApprovedForSession", "Denied", "Abort"}

Approving == {"Approved", "ApprovedForSession"}

\* ReviewDecision::default(), what unwrap_or_default() yields when the reply channel
\* is dropped without an answer.
DefaultDecision == "Denied"

\* protocol::AskForApproval; Reject carries RejectConfig.sandbox_approval.
AskForApproval ==
    {"Never", "OnRequest", "OnFailure", "UnlessTrusted",
     "Reject{sandbox_approval:true}", "Reject{sandbox_approval:false}"}

\* tools::sandboxing::ExecApprovalRequirement, precomputed upstream for a patch.
ExecApprovalRequirement == {"Skip", "NeedsApproval", "Forbidden"}

PromptIds == 1..(2 * Cardinality(CallIds))

UnusedPrompt == [state |-> "unused", key |-> NoKey, reason |-> FALSE, owner |-> "", answer |-> ""]

NewCall ==
    [pc |-> "new",
     key |-> NoKey,
     prompt |-> 0,              \* the prompt the first approval waits (waited) on
     decision |-> "",           \* the decision of the first approval
     retry_prompt |-> 0,        \* the prompt issued for the retry
     retry_decision |-> "",
     runs |-> 0,                \* runs of the exec pipeline in this attempt
     first_outcome |-> "",      \* how the sandboxed run ended
     final |-> "",              \* the attempt's final outcome
     after_session |-> FALSE,   \* the approval began after an ApprovedForSession answer
     after_plain |-> FALSE,     \*   ... an answer to a prompt without retry reason
     emitted |-> FALSE]         \* the first approval emitted a prompt of its own

\* impl Sandboxable for ApplyPatchRuntime: escalate_on_failure
escalate_on_failure == TRUE

\* Faulty variant: Reject prompts whatever its sandbox_approval flag says.
wants_no_sandbox_approval_reject_ignores_flag(policy) ==
    policy # "Never"

\* impl Approvable for ApplyPatchRuntime: wants_no_sandbox_approval
wants_no_sandbox_approval(policy) ==
    CASE policy = "Never" -> FALSE
      [] policy = "Reject{sandbox_approval:true}" -> FALSE
      [] policy = "Reject{sandbox_approval:false}" -> TRUE
      [] policy = "OnFailure" -> TRUE
      [] policy = "OnRequest" -> TRUE
      [] policy = "UnlessTrusted" -> TRUE

\* What a waiter reads from its reply channel: rx_approve.await.unwrap_or_default()
PromptDecision(p) ==
    IF prompts[p].state = "answered" THEN prompts[p].answer ELSE DefaultDecision

PromptResolved(p) == prompts[p].state \in {"answered", "dropped"}

\* session.request_patch_approval(turn, call_id, changes, reason, None): emit an
\* ApplyPatchApprovalRequest and hand back the reply channel.
request_patch_approval(c, has_reason) ==
    [prompts EXCEPT ![next_prompt] =
        [state |-> "open", key |-> calls[c].key, reason |-> has_reason,
         owner |-> c, answer |-> ""]]

\* Orchestrator, after the approval decision: run under the sandbox, or stop.
AfterFirstDecision(rec, d, cancelled) ==
    IF d \in Approving
    THEN [rec EXCEPT !.decision = d, !.pc = "sandboxed_run"]
    ELSE [rec EXCEPT !.decision = d, !.pc = "done",
                     !.final = IF cancelled THEN "ApprovalCancelled" ELSE "ApprovalDenied"]

\* Orchestrator, after the retry decision: rerun without the sandbox, or stop.
AfterRetryDecision(rec, d, cancelled) ==
    IF d \in Approving
    THEN [rec EXCEPT !.retry_decision = d, !.pc = "unsandboxed_run"]
    ELSE [rec EXCEPT !.retry_decision = d, !.pc = "done",
                     !.final = IF cancelled THEN "ApprovalCancelled" ELSE "SandboxDenied"]

\* History: was ApprovedForSession answered for this key before the approval began.
Began(rec) ==
    [rec EXCEPT !.after_session = \E r \in BOOLEAN : <<rec.key, r>> \in session_answers,
                !.after_plain = <<rec.key, FALSE>> \in session_answers]

\* tools::sandboxing::with_cached_approval(services, "apply_patch", keys, fetch), up to
\* the await of fetch: a cached key short-circuits, a key in flight is coalesced onto
\* the pending reply, otherwise the prompt is emitted.
with_cached_approval(c) ==
    LET rec == Began(calls[c])
    IN  IF <<"apply_patch", rec.key>> \in approval_cache
        THEN /\ calls' = [calls EXCEPT ![c] =
                    AfterFirstDecision(rec, "ApprovedForSession", FALSE)]
             /\ UNCHANGED <<prompts, next_prompt, in_flight>>
        ELSE IF in_flight[rec.key] # 0
        THEN /\ calls' = [calls EXCEPT ![c] =
                    [rec EXCEPT !.pc = "await_approval", !.prompt = in_flight[rec.key]]]
             /\ UNCHANGED <<prompts, next_prompt, in_flight>>
        ELSE /\ calls' = [calls EXCEPT ![c] =
                    [rec EXCEPT !.pc = "await_approval", !.prompt = next_prompt,
                                !.emitted = TRUE]]
             /\ prompts' = request_patch_approval(c, FALSE)
             /\ next_prompt' = next_prompt + 1
             /\ in_flight' = [in_flight EXCEPT ![rec.key] = next_prompt]

\* The retry branch of start_approval_async: prompt directly, passing the reason.
PromptWithReason(c) ==
    /\ calls' = [calls EXCEPT ![c].pc = "await_retry_approval",
                              ![c].retry_prompt = next_prompt]
    /\ prompts' = request_patch_approval(c, TRUE)
    /\ next_prompt' = next_prompt + 1
    /\ UNCHANGED in_flight

\* Faulty variant: the retry reason is ignored; every approval goes through the cache.
start_approval_async_always_cached(c) ==
    /\ calls[c].pc \in {"approval", "retry_approval"}
    /\ IF calls[c].pc = "retry_approval"
       THEN IF <<"apply_patch", calls[c].key>> \in approval_cache
            THEN /\ calls' = [calls EXCEPT ![c] =
                        AfterRetryDecision(calls[c], "ApprovedForSession", FALSE)]
                 /\ UNCHANGED <<prompts, next_prompt, in_flight>>
            ELSE PromptWithReason(c)
       ELSE with_cached_approval(c)
    /\ UNCHANGED <<approval_cache, session_answers, escVars, apprVars, execVars, launchVars, sseVars>>

\* Faulty variant: the cache is bypassed for every approval; each request prompts for itself.
start_approval_async_never_cached(c) ==
    /\ calls[c].pc \in {"approval", "retry_approval"}
    /\ IF calls[c].pc = "retry_approval"
       THEN PromptWithReason(c)
       ELSE /\ calls' = [calls EXCEPT ![c] =
                   [Began(calls[c]) EXCEPT !.pc = "await_approval",
                                           !.prompt = next_prompt, !.emitted = TRUE]]
            /\ prompts' = request_patch_approval(c, FALSE)
            /\ next_prompt' = next_prompt + 1
            /\ UNCHANGED in_flight
    /\ UNCHANGED <<approval_cache, session_answers, escVars, apprVars, execVars, launchVars, sseVars>>

\* ApplyPatchRuntime::start_approval_async, up to its first await on the reply:
\* with a retry reason prompt directly, otherwise go through with_cached_approval.
start_approval_async(c) ==
    /\ calls[c].pc \in {"approval", "retry_approval"}
    /\ IF calls[c].pc = "retry_approval"
       THEN PromptWithReason(c)
       ELSE with_cached_approval(c)
    /\ UNCHANGED <<approval_cache, session_answers, escVars, apprVars, execVars, launchVars, sseVars>>

\* The user answers a prompt.
answer_prompt(p, d) ==
    /\ prompts[p].state = "open"
    /\ prompts' = [prompts EXCEPT ![p].state = "answered", ![p].answer = d]
    /\ session_answers' = IF d = "ApprovedForSession"
                          THEN session_answers \cup {<<prompts[p].key, prompts[p].reason>>}
                          ELSE session_answers
    /\ UNCHANGED <<calls, next_prompt, approval_cache, in_flight, escVars, apprVars, execVars, launchVars, sseVars>>

\* The reply channel of a prompt is dropped without an answer (turn aborted, timeout).
drop_prompt(p) ==
    /\ prompts[p].state = "open"
    /\ prompts' = [prompts EXCEPT ![p].state = "dropped"]
    /\ UNCHANGED <<calls, next_prompt, approval_cache, in_flight, session_answers,
                   escVars, apprVars, execVars, launchVars, sseVars>>

\* The tail of with_cached_approval and of start_approval_async without retry reason:
\* the reply arrives; the request that emitted the prompt caches ApprovedForSession.
approval_resolved(c) ==
    LET p == calls[c].prompt
        d == PromptDecision(p)
        owner == prompts[p].owner = c
    IN  /\ calls[c].pc = "await_approval"
        /\ PromptResolved(p)
        /\ calls' = [calls EXCEPT ![c] =
               AfterFirstDecision(calls[c], d, prompts[p].state = "dropped")]
        /\ approval_cache' = IF owner /\ d = "ApprovedForSession"
                             THEN approval_cache \cup {<<"apply_patch", calls[c].key>>}
                             ELSE approval_cache
        /\ in_flight' = IF owner /\ in_flight[calls[c].key] = p
                        THEN [in_flight EXCEPT ![calls[c].key] = 0]
                        ELSE in_flight
        /\ UNCHANGED <<prompts, next_prompt, session_answers, escVars, apprVars, execVars, launchVars, sseVars>>

\* The tail of the retry branch: return rx_approve.await.unwrap_or_default()
retry_approval_resolved(c) ==
    LET p == calls[c].retry_prompt
    IN  /\ calls[c].pc = "await_retry_approval"
        /\ PromptResolved(p)
        /\ calls' = [calls EXCEPT ![c] =
               AfterRetryDecision(calls[c], PromptDecision(p), prompts[p].state = "dropped")]
        /\ UNCHANGED <<prompts, next_prompt, approval_cache, in_flight, session_answers,
                       escVars, apprVars, execVars, launchVars, sseVars>>

\* Orchestrator steps 1-4: a tool call arrives with its precomputed
\* exec_approval_requirement, which is honoured verbatim.
begin_attempt(c, key, requirement) ==
    /\ calls[c].pc = "new"
    /\ calls' = [calls EXCEPT ![c] =
           CASE requirement = "Forbidden" ->
                    [@ EXCEPT !.key = key, !.pc = "done", !.final = "PolicyRejected"]
             [] requirement = "Skip" -> [@ EXCEPT !.key = key, !.pc = "sandboxed_run"]
             [] requirement = "NeedsApproval" -> [@ EXCEPT !.key = key, !.pc = "approval"]]
    /\ UNCHANGED <<prompts, next_prompt, approval_cache, in_flight, session_answers,
                   escVars, apprVars, execVars, launchVars, sseVars>>

\* Orchestrator steps 6-7: the sandboxed run ends; a sandbox denial is retried only if
\* the component escalates on failure and the approval policy permits the prompt.
sandboxed_run_done(c, outcome, policy) ==
    /\ calls[c].pc = "sandboxed_run"
    /\ calls' = [calls EXCEPT ![c] =
           LET ran == [@ EXCEPT !.runs = @ + 1, !.first_outcome = outcome]
           IN  IF outcome = "SandboxDenied" /\ escalate_on_failure
                  /\ wants_no_sandbox_approval(policy)
               THEN [ran EXCEPT !.pc = "retry_approval"]
               ELSE [ran EXCEPT !.pc = "done", !.final = outcome]]
    /\ UNCHANGED <<prompts, next_prompt, approval_cache, in_flight, session_answers,
                   escVars, apprVars, execVars, launchVars, sseVars>>

\* Orchestrator step 7b: the rerun without the sandbox ends; its result is final.
unsandboxed_run_done(c, outcome) ==
    /\ calls[c].pc = "unsandboxed_run"
    /\ calls' = [calls EXCEPT ![c].runs = @ + 1, ![c].pc = "done", ![c].final = outcome]
    /\ UNCHANGED <<prompts, next_prompt, approval_cache, in_flight, session_answers,
                   escVars, apprVars, execVars, launchVars, sseVars>>

RunOutcomes == {"Ok", "NonZero", "SandboxDenied", "Timeout"}

(***************************************************************************)
(* Claims about the approval cache and the retry                           *)
(***************************************************************************)

\* C5 as stated: once the user has answered ApprovedForSession for ("apply_patch", key)
\* on any prompt, no later approval without retry reason for that key emits a prompt.
\* The answer to a retry prompt is never cached, so the next request prompts again.
C5_Original ==
    \A c \in CallIds : calls[c].after_session => ~calls[c].emitted

\* C5 (amended): once the user has answered ApprovedForSession to a prompt that was
\* issued without a retry reason, every later apply_patch approval with the same key
\* and no retry reason emits no prompt of its own and resolves ApprovedForSession.
C5_NoPromptAfterSessionApproval ==
    \A c \in CallIds :
        calls[c].after_plain =>
            /\ ~calls[c].emitted
            /\ calls[c].decision # "" => calls[c].decision = "ApprovedForSession"

C5_Witness ==
    \E c \in CallIds :
        /\ calls[c].after_plain
        /\ ~calls[c].emitted
        /\ calls[c].prompt = 0
        /\ calls[c].decision = "ApprovedForSession"
        /\ <<"apply_patch", calls[c].key>> \in approval_cache

Waiting(c) == calls[c].pc \in {"await_approval", "await_retry_approval"}

AwaitedPrompt(c) ==
    IF calls[c].pc = "await_retry_approval" THEN calls[c].retry_prompt ELSE calls[c].prompt

\* C6 as stated: any two approval requests with identical file_paths that both wait
\* on an unanswered prompt wait on one and the same prompt.  A request carrying a
\* retry reason always emits its own prompt, next to the one already open.
C6_Original ==
    \A c1, c2 \in CallIds :
        ( /\ c1 # c2
          /\ Waiting(c1) /\ Waiting(c2)
          /\ calls[c1].key = calls[c2].key
          /\ prompts[AwaitedPrompt(c1)].state = "open"
          /\ prompts[AwaitedPrompt(c2)].state = "open" )
        => AwaitedPrompt(c1) = AwaitedPrompt(c2)

\* C6 (amended): two concurrent apply_patch approval requests with identical
\* file_paths, neither carrying a retry reason and neither answered yet, wait on
\* exactly one prompt, and both observe the same decision.
C6_Coalesced ==
    /\ \A c1, c2 \in CallIds :
          ( /\ c1 # c2
            /\ calls[c1].pc = "await_approval" /\ calls[c2].pc = "await_approval"
            /\ calls[c1].key = calls[c2].key
            /\ prompts[calls[c1].prompt].state = "open"
            /\ prompts[calls[c2].prompt].state = "open" )
          => calls[c1].prompt = calls[c2].prompt
    /\ \A k \in FilePaths :
          Cardinality({p \in PromptIds : /\ prompts[p].state = "open"
                                         /\ prompts[p].key = k
                                         /\ ~prompts[p].reason}) <= 1
    /\ \A c1, c2 \in CallIds :
          ( /\ calls[c1].prompt # 0
            /\ calls[c1].prompt = calls[c2].prompt
            /\ calls[c1].decision # "" /\ calls[c2].decision # "" )
          => calls[c1].decision = calls[c2].decision

C6_Witness ==
    \E c1, c2 \in CallIds :
        /\ c1 # c2
        /\ calls[c1].emitted /\ ~calls[c2].emitted
        /\ calls[c1].prompt # 0
        /\ calls[c1].prompt = calls[c2].prompt
        /\ calls[c1].decision = "Approved"
        /\ calls[c2].decision = "Approved"

\* C7: when start_approval_async is called with a retry reason, the approval cache is
\* neither consulted nor updated: a prompt carrying the reason is always emitted, even
\* if the key is cached, and the decision returned is that prompt's decision.
C7_RetryBypassesCache ==
    [][\A c \in CallIds :
          /\ (calls[c].pc = "retry_approval" /\ calls'[c] # calls[c]) =>
                /\ calls'[c].pc = "await_retry_approval"
                /\ calls'[c].retry_prompt = next_prompt
                /\ next_prompt' = next_prompt + 1
                /\ prompts[next_prompt].state = "unused"
                /\ prompts'[next_prompt] =
                       [state |-> "open", key |-> calls[c].key, reason |-> TRUE,
                        owner |-> c, answer |-> ""]
                /\ approval_cache' = approval_cache
          /\ (calls[c].pc = "await_retry_approval" /\ calls'[c] # calls[c]) =>
                /\ calls'[c].retry_decision = PromptDecision(calls[c].retry_prompt)
                /\ approval_cache' = approval_cache]_vars

C7_Witness ==
    \E c \in CallIds :
        /\ <<"apply_patch", calls[c].key>> \in approval_cache
        /\ calls[c].decision = "ApprovedForSession"
        /\ calls[c].retry_prompt # 0
        /\ prompts[calls[c].retry_prompt].reason
        /\ prompts[calls[c].retry_prompt].answer = "Denied"
        /\ calls[c].retry_decision = "Denied"

\* C8: an attempt runs the exec pipeline at most twice; the second run happens only
\* after the first ended in SandboxDenied, with escalate_on_failure set and a fresh
\* retry approval; a timeout or a cancelled approval is never followed by another run.
C8_AtMostTwoRuns ==
    \A c \in CallIds :
        /\ calls[c].runs <= 2
        /\ (calls[c].pc = "unsandboxed_run" \/ calls[c].runs = 2) =>
              /\ calls[c].first_outcome = "SandboxDenied"
              /\ escalate_on_failure
              /\ calls[c].retry_prompt # 0
              /\ prompts[calls[c].retry_prompt].owner = c
              /\ prompts[calls[c].retry_prompt].reason
              /\ prompts[calls[c].retry_prompt].state = "answered"
              /\ prompts[calls[c].retry_prompt].answer \in Approving
              /\ calls[c].retry_decision = prompts[calls[c].retry_prompt].answer
        /\ calls[c].first_outcome = "Timeout" =>
              (calls[c].runs = 1 /\ calls[c].pc = "done")
        /\ calls[c].final = "Timeout" =>
              (calls[c].pc = "done" /\ calls[c].runs = IF calls[c].retry_prompt = 0 THEN 1 ELSE 2)
        /\ calls[c].final = "ApprovalCancelled" =>
              (calls[c].pc = "done" /\ calls[c].runs = IF calls[c].retry_prompt = 0 THEN 0 ELSE 1)

C8_Witness ==
    \E c \in CallIds :
        /\ calls[c].pc = "done"
        /\ calls[c].runs = 2
        /\ calls[c].first_outcome = "SandboxDenied"
        /\ calls[c].final = "Ok"
        /\ <<"apply_patch", calls[c].key>> \in approval_cache

\* C27: after a sandbox denial of apply_patch, the prompt for the unsandboxed retry is
\* permitted exactly when the approval policy is OnRequest, OnFailure, UnlessTrusted
\* or Reject with sandbox_approval = false; under Never and under Reject with
\* sandbox_approval = true the denial is the attempt's outcome and nothing is prompted.
C27_PromptAfterDenial ==
    [][\A c \in CallIds, policy \in AskForApproval :
          sandboxed_run_done(c, "SandboxDenied", policy) =>
              LET permitted ==
                      policy \in {"OnRequest", "OnFailure", "UnlessTrusted",
                                  "Reject{sandbox_approval:false}"}
              IN  /\ wants_no_sandbox_approval(policy) <=> permitted
                  /\ permitted => calls'[c].pc = "retry_approval"
                  /\ ~permitted => /\ calls'[c].pc = "done"
                                   /\ calls'[c].final = "SandboxDenied"
                                   /\ calls'[c].retry_prompt = 0
                                   /\ prompts' = prompts]_vars

\* The sandbox denied two attempts: for one the denial was surfaced after a single run
\* without any retry prompt, for the other the retry prompt (with its reason) is open.
C27_Witness ==
    \E c, d \in CallIds :
        /\ calls[c].first_outcome = "SandboxDenied"
        /\ calls[c].pc = "done"
        /\ calls[c].final = "SandboxDenied"
        /\ calls[c].runs = 1
        /\ calls[c].retry_prompt = 0
        /\ calls[d].first_outcome = "SandboxDenied"
        /\ calls[d].pc = "await_retry_approval"
        /\ prompts[calls[d].retry_prompt].state = "open"
        /\ prompts[calls[d].retry_prompt].reason

(***************************************************************************)
(* Exec pipeline: streaming, truncation, termination; and the HTTP handler *)
(* that runs one command through it                                        *)
(***************************************************************************)
MaxChunks == 3          \* chunks a child writes in one run

MaxOutputBytes == 2     \* the fixed byte budget of an output stream

Bytes == {"a", "b"}

\* The text both expirations leave in stderr and aggregated_output.
TimeoutMessage == "Execution timed out or was cancelled"

ExecExpiration == {"Timeout", "Cancellation"}

Callers == {"execute_command", "tool_runtime"}

\* StreamOutput { text, truncated }
EmptyStream == [text |-> <<>>, truncated |-> FALSE]

NoResponse == [kind |-> "none"]

\* No request to /api/v2/commands is being handled.
NoCommandRequest ==
    [command_empty |-> FALSE, cwd |-> "", config_loads |-> FALSE, sandbox_policy |-> "",
     platform_sandbox |-> ""]

IdleExec ==
    [pc |-> "idle", caller |-> "", expiration |-> "", chunks |-> 0,
     stdout |-> EmptyStream, stderr |-> EmptyStream, aggregated_output |-> EmptyStream,
     exit_code |-> 0, timed_out |-> FALSE, result |-> "",
     request |-> NoCommandRequest,     \* what execute_command was asked and what it found
     invoked |-> FALSE]         \* process_exec_tool_call was called

SandboxPolicies == {"ReadOnly", "WorkspaceWrite", "DangerFullAccess", "ExternalSandbox"}

\* get_platform_sandbox(false): Some(SandboxType) or None.
PlatformSandboxes == {"BoxLite", "MacosSeatbelt", "None"}

\* A request to /api/v2/commands together with what the handler finds on the host:
\* whether req.cwd is absent, canonicalizes or does not, whether the config loads,
\* the configured sandbox policy and the platform sandbox.
CommandRequests ==
    [command_empty : BOOLEAN, cwd : {"absent", "valid", "invalid"},
     config_loads : BOOLEAN, sandbox_policy : SandboxPolicies,
     platform_sandbox : PlatformSandboxes]

\* IntoResponse for ApiError: the HTTP status of an answer.
status_code(kind) ==
    CASE kind = "Ok" -> 200
      [] kind = "ApiError::InvalidRequest" -> 400
      [] kind = "ApiError::InternalError" -> 500
      [] kind = "ApiError::Timeout" -> 504
      [] OTHER -> 0

\* Faulty variant: the platform sandbox is not looked at.
early_return_without_platform_check(req) ==
    IF req.command_empty THEN "ApiError::InvalidRequest"
    ELSE IF req.cwd = "invalid" THEN "ApiError::InvalidRequest"
    ELSE IF ~req.config_loads THEN "ApiError::InternalError"
    ELSE IF req.sandbox_policy \in {"DangerFullAccess", "ExternalSandbox"}
    THEN "ApiError::InternalError"
    ELSE "none"

\* execute_command up to the call of process_exec_tool_call: the error of the first
\* early return taken, "none" if the handler goes on to the pipeline.
early_return(req) ==
    IF req.command_empty THEN "ApiError::InvalidRequest"
    ELSE IF req.cwd = "invalid" THEN "ApiError::InvalidRequest"
    ELSE IF ~req.config_loads THEN "ApiError::InternalError"
    ELSE IF req.sandbox_policy \in {"DangerFullAccess", "ExternalSandbox"}
    THEN "ApiError::InternalError"
    ELSE IF req.platform_sandbox # "BoxLite" THEN "ApiError::InternalError"
    ELSE "none"

\* handlers::commands::execute_command, up to the call of process_exec_tool_call.
execute_command_checks(req) ==
    /\ exec.pc = "idle"
    /\ IF early_return(req) # "none"
       THEN /\ exec' = [exec EXCEPT !.pc = "responded", !.caller = "execute_command",
                                    !.request = req]
            /\ response' = [kind |-> early_return(req)]
       ELSE /\ exec' = [exec EXCEPT !.pc = "checked", !.caller = "execute_command",
                                    !.request = req]
            /\ UNCHANGED response
    /\ UNCHANGED <<escVars, apprVars, patchVars, launchVars, sseVars>>

\* Appending a chunk to a stream keeps everything up to the budget and records
\* whether anything was cut.
AppendChunk(stream, chunk) ==
    LET all == stream.text \o chunk
    IN  IF Len(all) <= MaxOutputBytes
        THEN [stream EXCEPT !.text = all]
        ELSE [text |-> SubSeq(all, 1, MaxOutputBytes), truncated |-> TRUE]

\* process_exec_tool_call is called and the child is spawned: by a tool runtime, or
\* by execute_command once its checks have passed, always with a 10 s Timeout.
spawn_child(caller, expiration) ==
    /\ exec.pc = IF caller = "execute_command" THEN "checked" ELSE "idle"
    /\ caller = "execute_command" => expiration = "Timeout"
    /\ exec' = [exec EXCEPT !.pc = "running", !.caller = caller, !.expiration = expiration,
                            !.invoked = TRUE]
    /\ UNCHANGED <<response, escVars, apprVars, patchVars, launchVars, sseVars>>

\* Faulty variant: a stderr chunk is put in front of the aggregated output.
read_stderr_chunk_prepends(b) ==
    /\ exec.pc = "running"
    /\ exec.chunks < MaxChunks
    /\ exec' = [exec EXCEPT !.chunks = @ + 1,
                            !.stderr = AppendChunk(@, <<b>>),
                            !.aggregated_output =
                                IF Len(@.text) < MaxOutputBytes
                                THEN [@ EXCEPT !.text = <<b>> \o @]
                                ELSE [@ EXCEPT !.truncated = TRUE]]
    /\ UNCHANGED <<response, escVars, apprVars, patchVars, launchVars, sseVars>>

\* A chunk read from the child's stdout goes to stdout and to aggregated_output.
read_stdout_chunk(b) ==
    /\ exec.pc = "running"
    /\ exec.chunks < MaxChunks
    /\ exec' = [exec EXCEPT !.chunks = @ + 1,
                            !.stdout = AppendChunk(@, <<b>>),
                            !.aggregated_output = AppendChunk(@, <<b>>)]
    /\ UNCHANGED <<response, escVars, apprVars, patchVars, launchVars, sseVars>>

\* A chunk read from the child's stderr goes to stderr and to aggregated_output.
read_stderr_chunk(b) ==
    /\ exec.pc = "running"
    /\ exec.chunks < MaxChunks
    /\ exec' = [exec EXCEPT !.chunks = @ + 1,
                            !.stderr = AppendChunk(@, <<b>>),
                            !.aggregated_output = AppendChunk(@, <<b>>)]
    /\ UNCHANGED <<response, escVars, apprVars, patchVars, launchVars, sseVars>>

\* Natural exit: the exit code (-1 if there is none), then classification.
child_exits(code, denial_signature) ==
    /\ exec.pc = "running"
    /\ exec' = [exec EXCEPT !.pc = "finished",
                            !.exit_code = code,
                            !.result = IF code # 0 /\ denial_signature
                                       THEN "Sandbox::Denied" ELSE "Ok"]
    /\ UNCHANGED <<response, escVars, apprVars, patchVars, launchVars, sseVars>>

\* The timeout elapses or the cancellation token fires: the child is shut down and
\* the attempt returns Err(Sandbox::Timeout { output }).
expire ==
    /\ exec.pc = "running"
    /\ exec' = [exec EXCEPT !.pc = "finished",
                            !.exit_code = 124,
                            !.timed_out = TRUE,
                            !.stdout = EmptyStream,
                            !.stderr = [text |-> <<TimeoutMessage>>, truncated |-> FALSE],
                            !.aggregated_output =
                                [text |-> <<TimeoutMessage>>, truncated |-> FALSE],
                            !.result = "Sandbox::Timeout"]
    /\ UNCHANGED <<response, escVars, apprVars, patchVars, launchVars, sseVars>>

\* Faulty variant: a timed-out command is answered like any other failure.
execute_command_timeout_as_internal_error ==
    /\ exec.pc = "finished"
    /\ exec.caller = "execute_command"
    /\ response' =
          IF exec.result = "Ok"
          THEN [kind |-> "Ok", stdout |-> exec.stdout.text, stderr |-> exec.stderr.text,
                exit_code |-> exec.exit_code]
          ELSE [kind |-> "ApiError::InternalError"]
    /\ exec' = [exec EXCEPT !.pc = "responded"]
    /\ UNCHANGED <<escVars, apprVars, patchVars, launchVars, sseVars>>

\* handlers::commands::execute_command, from the result of process_exec_tool_call on.
execute_command ==
    /\ exec.pc = "finished"
    /\ exec.caller = "execute_command"
    /\ response' =
          CASE exec.result = "Sandbox::Timeout" -> [kind |-> "ApiError::Timeout"]
            [] exec.result = "Ok" ->
                   [kind |-> "Ok", stdout |-> exec.stdout.text,
                    stderr |-> exec.stderr.text, exit_code |-> exec.exit_code]
            [] OTHER -> [kind |-> "ApiError::InternalError"]
    /\ exec' = [exec EXCEPT !.pc = "responded"]
    /\ UNCHANGED <<escVars, apprVars, patchVars, launchVars, sseVars>>

\* The next command is run.
next_command ==
    /\ exec.pc = "responded" \/ (exec.pc = "finished" /\ exec.caller = "tool_runtime")
    /\ exec' = IdleExec
    /\ response' = NoResponse
    /\ UNCHANGED <<escVars, apprVars, patchVars, launchVars, sseVars>>

ExitCodes == {0, 2, -1}

(***************************************************************************)
(* Claims about the exec pipeline                                          *)
(***************************************************************************)

\* C9: for every exec outcome, timed_out = true implies exit_code = 124 and
\* stderr = "Execution timed out or was cancelled", for an elapsed Timeout as for a
\* fired cancellation token, and the outcome is reported as the Sandbox Timeout error.
C9_TimedOutOutcome ==
    /\ exec.timed_out =>
          /\ exec.exit_code = 124
          /\ exec.stderr.text = <<TimeoutMessage>>
          /\ exec.result = "Sandbox::Timeout"
          /\ exec.pc = "responded" => response.kind = "ApiError::Timeout"
    /\ exec.result = "Sandbox::Timeout" => exec.timed_out

C9_Witness ==
    /\ exec.pc = "responded"
    /\ exec.timed_out
    /\ exec.chunks > 0
    /\ exec.exit_code = 124
    /\ response.kind = "ApiError::Timeout"

RECURSIVE IsSubsequence(_, _)
\* s can be obtained from t by deleting elements, keeping the order of the rest.
IsSubsequence(s, t) ==
    IF s = <<>> THEN TRUE
    ELSE IF t = <<>> THEN FALSE
    ELSE IF Head(s) = Head(t) THEN IsSubsequence(Tail(s), Tail(t))
    ELSE IsSubsequence(s, Tail(t))

C39_SandboxedOrRefused ==
    exec.caller = "execute_command" =>
        LET req == exec.request
            refused == \/ req.command_empty
                       \/ req.sandbox_policy \in {"DangerFullAccess", "ExternalSandbox"}
                       \/ req.platform_sandbox # "BoxLite"
        IN  /\ refused =>
                  /\ ~exec.invoked
                  /\ exec.pc = "responded"
                  /\ response.kind \in {"ApiError::InvalidRequest", "ApiError::InternalError"}
                  /\ status_code(response.kind) \in {400, 500}
            /\ exec.invoked =>
                  /\ ~req.command_empty
                  /\ req.sandbox_policy \in {"ReadOnly", "WorkspaceWrite"}
                  /\ req.platform_sandbox = "BoxLite"
            /\ (exec.pc = "responded" /\ exec.timed_out) =>
                  /\ response = [kind |-> "ApiError::Timeout"]
                  /\ status_code(response.kind) = 504

\* A refused request next to nothing run: the policy is workspace-write but the
\* platform sandbox is not BoxLite.
C39_Witness ==
    /\ exec.pc = "responded"
    /\ exec.caller = "execute_command"
    /\ ~exec.request.command_empty
    /\ exec.request.config_loads
    /\ exec.request.sandbox_policy = "WorkspaceWrite"
    /\ exec.request.platform_sandbox = "MacosSeatbelt"
    /\ ~exec.invoked
    /\ response.kind = "ApiError::InternalError"

(***************************************************************************)
(* Child environments and commands: runtime-dir discovery, the overlay on  *)
(* the loader-path variables, minimal_env and the command of the           *)
(* apply_patch runtime, and the environment of EscalateServer::exec        *)
(***************************************************************************)
MaxDirLen == 2      \* length of an explicit BOXLITE_RUNTIME_DIR value
MaxListLen == 3     \* length of an inherited loader-path value
MaxEntries == 2     \* directory entries of <profile-dir>/build
MaxApplied == 2     \* applications of apply_boxlite_runtime_env to one environment

\* Text is a sequence of pieces: a name, the path separator, the path-list separator.
PathChars == {"d", "/", ":"}

Text(n) == UNION {[1..m -> PathChars] : m \in 0..n}

\* A variable that is not in the environment (the empty text is a value of its own).
Unset == <<"(unset)">>

LOADER_ENV_VARS ==
    {"DYLD_LIBRARY_PATH", "DYLD_FALLBACK_LIBRARY_PATH", "DYLD_INSERT_LIBRARIES",
     "LD_LIBRARY_PATH"}

LOADER_PATH_ENV_VARS == <<"DYLD_LIBRARY_PATH", "DYLD_FALLBACK_LIBRARY_PATH", "LD_LIBRARY_PATH">>

BOXLITE_RUNTIME_ENV_VAR == "BOXLITE_RUNTIME_DIR"

\* exec_env::create_env under ShellEnvironmentPolicyInherit::Core keeps these.
CoreVars == {"HOME", "PATH"}

\* A variable of the host that is neither core, nor loader, nor the runtime-dir override.
OtherVars == {"API_TOKEN"}

HostVars == CoreVars \cup LOADER_ENV_VARS \cup {BOXLITE_RUNTIME_ENV_VAR} \cup OtherVars

\* The variables EscalateServer::exec adds for the wrapper.
EscalateVars ==
    {"ESCALATE_SOCKET_ENV_VAR", "EXEC_WRAPPER_ENV_VAR", "LEGACY_BASH_EXEC_WRAPPER_ENV_VAR"}

EnvKeys == HostVars \cup EscalateVars

EmptyEnv == [k \in EnvKeys |-> Unset]

\* The pieces of s between occurrences of sep (one more than the occurrences).
RECURSIVE Split(_, _)
Split(s, sep) ==
    LET at == {i \in 1..Len(s) : s[i] = sep}
    IN  IF at = {} THEN <<s>>
        ELSE LET i == CHOOSE x \in at : \A y \in at : x <= y
             IN  <<SubSeq(s, 1, i - 1)>> \o Split(SubSeq(s, i + 1, Len(s)), sep)

\* std::env::split_paths (unix): split at ':'; empty pieces are paths too.
split_paths(s) == Split(s, ":")

RECURSIVE Joined(_)
Joined(paths) ==
    IF Len(paths) = 0 THEN <<>>
    ELSE IF Len(paths) = 1 THEN paths[1]
    ELSE paths[1] \o <<":">> \o Joined(Tail(paths))

\* std::env::join_paths (unix): Err when a path contains ':'.
join_paths(paths) ==
    [ok |-> \A i \in 1..Len(paths) : \A j \in 1..Len(paths[i]) : paths[i][j] # ":",
     value |-> Joined(paths)]

\* Path::components: whether the path starts at the root, and its non-empty names.
components(path) ==
    [root |-> Len(path) > 0 /\ path[1] = "/",
     names |-> SelectSeq(Split(path, "/"), LAMBDA name : name # <<>>)]

\* PathBuf == PathBuf compares components, so "d/" and "d" are the same path.
PathEq(a, b) == components(a) = components(b)

\* Path::join with a relative name.
join(base, name) ==
    IF base = <<>> THEN name
    ELSE IF base[Len(base)] = "/" THEN base \o name
    ELSE base \o <<"/">> \o name

NoPath == [some |-> FALSE, path |-> <<>>]

Some(path) == [some |-> TRUE, path |-> path]

RECURSIVE Under(_, _)
Under(base, names) ==
    IF names = <<>> THEN base ELSE Under(join(base, names[1]), Tail(names))

\* Path::parent: the path without its last name; None for the root and the empty path.
parent(path) ==
    LET c == components(path)
        n == Len(c.names)
    IN  IF n = 0 THEN NoPath
        ELSE Some(Under(IF c.root THEN <<"/">> ELSE <<>>, SubSeq(c.names, 1, n - 1)))

\* Path::file_name: the last name.
file_name(path) ==
    LET c == components(path)
    IN  IF c.names = <<>> THEN NoPath ELSE Some(c.names[Len(c.names)])

\* profile_dir_from_exe: the directory of the executable, or the one above a "deps".
profile_dir_from_exe(exe) ==
    LET dir == parent(exe)
    IN  IF ~dir.some THEN NoPath
        ELSE IF file_name(dir.path) = Some(<<"deps">>) THEN parent(dir.path)
        ELSE dir

\* entry.path().join("out").join("runtime") of a build directory entry.
RuntimeDirOf(build_dir, name) == join(join(join(build_dir, <<name>>), <<"out">>), <<"runtime">>)

\* runtime_dir.join("mke2fs"), the probe file.
Probe(runtime_dir) == join(runtime_dir, <<"mke2fs">>)

\* name.starts_with("boxlite-")
StartsWithBoxlite(name) == name \in {"boxlite-1", "boxlite-2"}

\* discover_boxlite_runtime_dir: the first entry, in the order read_dir yields them,
\* that is named boxlite-* and holds the probe file.
discover_boxlite_runtime_dir(h, profile_dir) ==
    LET build_dir == join(profile_dir, <<"build">>)
        entries == h.read_dir.entries
        hits == {i \in 1..Len(entries) :
                    /\ StartsWithBoxlite(entries[i])
                    /\ Probe(RuntimeDirOf(build_dir, entries[i])) \in h.files}
    IN  IF ~h.read_dir.ok \/ hits = {} THEN NoPath
        ELSE Some(RuntimeDirOf(build_dir, entries[CHOOSE i \in hits : \A j \in hits : i <= j]))

NotDiscovered == [some |-> FALSE, path |-> <<>>, source |-> "none", scanned |-> FALSE]

Discovered(path, source, scanned) ==
    [some |-> TRUE, path |-> path, source |-> source, scanned |-> scanned]

\* Faulty variant: the installed directory is probed before the variable is looked at.
boxlite_runtime_dir_probes_before_env(h) ==
    LET explicit == h.environ[BOXLITE_RUNTIME_ENV_VAR]
        profile_dir == IF h.current_exe.some THEN profile_dir_from_exe(h.current_exe.path)
                       ELSE NoPath
        deps_runtime_dir == join(join(profile_dir.path, <<"deps">>), <<"runtime">>)
        scan == discover_boxlite_runtime_dir(h, profile_dir.path)
    IN  IF profile_dir.some /\ Probe(deps_runtime_dir) \in h.files
        THEN Discovered(deps_runtime_dir, "deps", FALSE)
        ELSE IF explicit # Unset THEN Discovered(explicit, "env", FALSE)
        ELSE IF ~profile_dir.some THEN NotDiscovered
        ELSE IF scan.some THEN Discovered(scan.path, "build", TRUE)
        ELSE [NotDiscovered EXCEPT !.scanned = TRUE]

\* boxlite_runtime_dir: the explicit variable, else <profile-dir>/deps/runtime when it
\* holds the probe file, else the scan of <profile-dir>/build.
boxlite_runtime_dir(h) ==
    LET explicit == h.environ[BOXLITE_RUNTIME_ENV_VAR]
        profile_dir == IF h.current_exe.some THEN profile_dir_from_exe(h.current_exe.path)
                       ELSE NoPath
        deps_runtime_dir == join(join(profile_dir.path, <<"deps">>), <<"runtime">>)
        scan == discover_boxlite_runtime_dir(h, profile_dir.path)
    IN  IF explicit # Unset THEN Discovered(explicit, "env", FALSE)
        ELSE IF ~profile_dir.some THEN NotDiscovered
        ELSE IF Probe(deps_runtime_dir) \in h.files
        THEN Discovered(deps_runtime_dir, "deps", FALSE)
        ELSE IF scan.some THEN Discovered(scan.path, "build", TRUE)
        ELSE [NotDiscovered EXCEPT !.scanned = TRUE]

\* Faulty variant: the value is put in front of the entries as they are.
prepend_env_path_keeps_duplicates(env, key, value) ==
    LET existing == env[key]
        kept == IF existing = Unset THEN <<>> ELSE split_paths(existing)
        joined == join_paths(<<value>> \o kept)
    IN  IF joined.ok THEN [env EXCEPT ![key] = joined.value] ELSE env

\* prepend_env_path: value, then the existing entries that are not value; the variable
\* is left as it is when join_paths fails.
prepend_env_path(env, key, value) ==
    LET existing == env[key]
        kept == IF existing = Unset THEN <<>>
                ELSE SelectSeq(split_paths(existing), LAMBDA path : ~PathEq(path, value))
        joined == join_paths(<<value>> \o kept)
    IN  IF joined.ok THEN [env EXCEPT ![key] = joined.value] ELSE env

RECURSIVE Prepended(_, _, _)
Prepended(env, keys, value) ==
    IF keys = <<>> THEN env
    ELSE Prepended(prepend_env_path(env, keys[1], value), Tail(keys), value)

\* apply_boxlite_runtime_env: export the discovered runtime dir and put it in front of
\* each loader-path variable; nothing when no runtime dir is discovered.
apply_boxlite_runtime_env(h, env) ==
    LET dir == boxlite_runtime_dir(h)
    IN  IF ~dir.some THEN env
        ELSE Prepended([env EXCEPT ![BOXLITE_RUNTIME_ENV_VAR] = dir.path],
                       LOADER_PATH_ENV_VARS, dir.path)

\* exec_env::create_env(&policy, None) with inherit = Core: the core variables of the
\* host and nothing else.
create_env(h) == [k \in EnvKeys |-> IF k \in CoreVars THEN h.environ[k] ELSE Unset]

\* minimal_env, before the overlay: create_env plus the loader variables of the host.
LoaderEnv(h) ==
    [k \in EnvKeys |-> IF k \in LOADER_ENV_VARS THEN h.environ[k] ELSE create_env(h)[k]]

\* ApplyPatchRuntime::minimal_env
minimal_env(h) == apply_boxlite_runtime_env(h, LoaderEnv(h))

\* escalate_server.rs has its own copy of the five functions and of the list of
\* loader-path variables.
escalate_server_LOADER_PATH_ENV_VARS ==
    <<"DYLD_LIBRARY_PATH", "DYLD_FALLBACK_LIBRARY_PATH", "LD_LIBRARY_PATH">>

\* escalate_server.rs, profile_dir_from_exe
escalate_server_profile_dir_from_exe(exe) ==
    LET dir == parent(exe)
    IN  IF ~dir.some THEN NoPath
        ELSE IF file_name(dir.path) = Some(<<"deps">>) THEN parent(dir.path)
        ELSE dir

\* escalate_server.rs, discover_boxlite_runtime_dir
escalate_server_discover_boxlite_runtime_dir(h, profile_dir) ==
    LET build_dir == join(profile_dir, <<"build">>)
        entries == h.read_dir.entries
        hits == {i \in 1..Len(entries) :
                    /\ StartsWithBoxlite(entries[i])
                    /\ Probe(RuntimeDirOf(build_dir, entries[i])) \in h.files}
    IN  IF ~h.read_dir.ok \/ hits = {} THEN NoPath
        ELSE Some(RuntimeDirOf(build_dir, entries[CHOOSE i \in hits : \A j \in hits : i <= j]))

\* escalate_server.rs, boxlite_runtime_dir
escalate_server_boxlite_runtime_dir(h) ==
    LET explicit == h.environ[BOXLITE_RUNTIME_ENV_VAR]
        profile_dir == IF h.current_exe.some
                       THEN escalate_server_profile_dir_from_exe(h.current_exe.path)
                       ELSE NoPath
        deps_runtime_dir == join(join(profile_dir.path, <<"deps">>), <<"runtime">>)
        scan == escalate_server_discover_boxlite_runtime_dir(h, profile_dir.path)
    IN  IF explicit # Unset THEN Discovered(explicit, "env", FALSE)
        ELSE IF ~profile_dir.some THEN NotDiscovered
        ELSE IF Probe(deps_runtime_dir) \in h.files
        THEN Discovered(deps_runtime_dir, "deps", FALSE)
        ELSE IF scan.some THEN Discovered(scan.path, "build", TRUE)
        ELSE [NotDiscovered EXCEPT !.scanned = TRUE]

\* Faulty variant: the existing entries are kept in front and the value is appended.
escalate_server_prepend_env_path_appends(env, key, value) ==
    LET existing == env[key]
        kept == IF existing = Unset THEN <<>>
                ELSE SelectSeq(split_paths(existing), LAMBDA path : ~PathEq(path, value))
        joined == join_paths(kept \o <<value>>)
    IN  IF joined.ok THEN [env EXCEPT ![key] = joined.value] ELSE env

\* escalate_server.rs, prepend_env_path
escalate_server_prepend_env_path(env, key, value) ==
    LET existing == env[key]
        kept == IF existing = Unset THEN <<>>
                ELSE SelectSeq(split_paths(existing), LAMBDA path : ~PathEq(path, value))
        joined == join_paths(<<value>> \o kept)
    IN  IF joined.ok THEN [env EXCEPT ![key] = joined.value] ELSE env

\* escalate_server.rs, apply_boxlite_runtime_env; the loop runs over the three keys.
escalate_server_apply_boxlite_runtime_env(h, env) ==
    LET dir == escalate_server_boxlite_runtime_dir(h)
        keys == escalate_server_LOADER_PATH_ENV_VARS
    IN  IF ~dir.some THEN env
        ELSE escalate_server_prepend_env_path(
                 escalate_server_prepend_env_path(
                     escalate_server_prepend_env_path(
                         [env EXCEPT ![BOXLITE_RUNTIME_ENV_VAR] = dir.path],
                         keys[1], dir.path),
                     keys[2], dir.path),
                 keys[3], dir.path)

\* EscalateServer::exec: std::env::vars().collect()
Snapshot(h) == h.environ

\* EscalateServer::exec: the three variables inserted after the overlay.
WithWrapperVars(env) ==
    [k \in EnvKeys |->
        IF k = "ESCALATE_SOCKET_ENV_VAR" THEN <<"client_socket">>
        ELSE IF k \in EscalateVars THEN <<"execve_wrapper">>
        ELSE env[k]]

\* The environment EscalateServer::exec hands to process_exec_tool_call.
ExecEnv(h) == WithWrapperVars(escalate_server_apply_boxlite_runtime_env(h, Snapshot(h)))

\* Where the server is installed, and the caller-provided codex_exe of a request.
ProfileDir == <<"/", "p">>

ExePaths == {<<"/", "p", "/", "codex">>, <<"/", "p", "/", "deps", "/", "codex">>}

CodexExePath == <<"/", "opt", "/", "codex">>

DepsRuntimeDir == join(join(ProfileDir, <<"deps">>), <<"runtime">>)

BuildDir == join(ProfileDir, <<"build">>)

\* The directories that may be found in <profile-dir>/build, and when each was modified.
BuildNames == {"boxlite-1", "boxlite-2", "cache"}

Mtime(name) == CASE name = "boxlite-1" -> 1 [] name = "boxlite-2" -> 2 [] OTHER -> 3

\* std::fs::read_dir(&build_dir): Err, or the entries in the order the system yields them.
Listings ==
    {s \in UNION {[1..n -> BuildNames] : n \in 0..MaxEntries} :
        \A i, j \in 1..Len(s) : i # j => s[i] # s[j]}

NoListing == [ok |-> FALSE, entries |-> <<>>]

\* A host with PATH alone, no runtime dir anywhere, on Linux.
DefaultHost ==
    [environ |-> [k \in EnvKeys |-> IF k = "PATH" THEN <<"d">> ELSE Unset],
     current_exe |-> Some(<<"/", "p", "/", "codex">>),
     files |-> {},
     read_dir |-> NoListing,
     target_os |-> "linux"]

\* Hosts that differ in the explicit runtime dir and in the loader-path variables.
LoaderHosts ==
    {[DefaultHost EXCEPT
         !.environ = [@ EXCEPT ![BOXLITE_RUNTIME_ENV_VAR] = dir,
                               !["LD_LIBRARY_PATH"] = ld,
                               !["DYLD_LIBRARY_PATH"] = dy,
                               !["DYLD_FALLBACK_LIBRARY_PATH"] = dy],
         !.files = IF deps THEN {Probe(DepsRuntimeDir)} ELSE {}] :
        dir \in {Unset} \cup Text(MaxDirLen),
        ld \in {Unset} \cup Text(MaxListLen),
        dy \in {Unset, <<"d">>},
        deps \in BOOLEAN}

\* Hosts that differ in the variables a child may or may not inherit.
InheritHosts ==
    {[DefaultHost EXCEPT
         !.environ = [k \in EnvKeys |-> IF k \in DOMAIN f THEN f[k] ELSE Unset]] :
        f \in [{"HOME", "PATH", "API_TOKEN", "DYLD_INSERT_LIBRARIES"} -> {Unset, <<"d">>}]}

\* Hosts that differ in where a runtime dir can be found.
DiscoveryHosts ==
    {[DefaultHost EXCEPT
         !.environ = [@ EXCEPT ![BOXLITE_RUNTIME_ENV_VAR] = dir],
         !.current_exe = exe,
         !.files = {Probe(RuntimeDirOf(BuildDir, n)) : n \in probes}
                      \cup (IF deps THEN {Probe(DepsRuntimeDir)} ELSE {}),
         !.read_dir = listing] :
        dir \in {Unset, <<"d">>},
        exe \in {NoPath} \cup {Some(p) : p \in ExePaths},
        probes \in SUBSET BuildNames,
        deps \in BOOLEAN,
        listing \in {NoListing} \cup {[ok |-> TRUE, entries |-> s] : s \in Listings}}

\* Hosts that differ in the target the server was built for and in its executables.
CommandHosts ==
    {[DefaultHost EXCEPT !.current_exe = exe, !.files = files, !.target_os = os] :
        exe \in {NoPath, Some(<<"/", "p", "/", "codex">>)},
        files \in {{}, {CodexExePath}},
        os \in {"linux", "macos"}}

Hosts == LoaderHosts \cup InheritHosts \cup DiscoveryHosts \cup CommandHosts

NoLaunch ==
    [stage |-> "none",          \* "apply_patch" | "exec" | "rejected"
     codex_exe |-> NoPath,      \* req.codex_exe
     program |-> <<>>,
     dir |-> NotDiscovered,     \* what boxlite_runtime_dir returned
     before |-> EmptyEnv,       \* the environment apply_boxlite_runtime_env was given
     overlaid |-> EmptyEnv,     \* ... and what it made of it
     env |-> EmptyEnv,          \* the environment handed to the child
     applied |-> 0,
     ran |-> FALSE]

\* Faulty variant: a codex_exe that is given is used whether it exists or not.
build_command_spec_without_exists_check(h, codex_exe) ==
    LET exe == IF h.target_os = "linux" /\ codex_exe.some THEN codex_exe ELSE h.current_exe
    IN  [ok |-> exe.some, program |-> exe.path, env |-> minimal_env(h)]

\* ApplyPatchRuntime::build_command_spec: Err(ToolError::Rejected) when the executable
\* cannot be determined, else the CommandSpec (program and env).
build_command_spec(h, codex_exe) ==
    LET exe == IF h.target_os = "linux" /\ codex_exe.some /\ codex_exe.path \in h.files
               THEN codex_exe
               ELSE h.current_exe
    IN  [ok |-> exe.some, program |-> exe.path, env |-> minimal_env(h)]

\* ApplyPatchRuntime::run: build_command_spec(req)?, then execute_env with its env.
run(codex_exe) ==
    /\ launch.stage = "none"
    /\ LET spec == build_command_spec(host, codex_exe)
       IN  launch' =
              IF spec.ok
              THEN [stage |-> "apply_patch", codex_exe |-> codex_exe,
                    program |-> spec.program, dir |-> boxlite_runtime_dir(host),
                    before |-> LoaderEnv(host), overlaid |-> spec.env, env |-> spec.env,
                    applied |-> 1, ran |-> TRUE]
              ELSE [NoLaunch EXCEPT !.stage = "rejected", !.codex_exe = codex_exe]
    /\ UNCHANGED <<host, escVars, apprVars, patchVars, execVars, sseVars>>

\* EscalateServer::exec, up to process_exec_tool_call: snapshot the environment of the
\* process, apply the overlay, insert the wrapper variables, and run bash with it.
EscalateServer_exec ==
    /\ launch.stage = "none"
    /\ launch' = [stage |-> "exec", codex_exe |-> NoPath, program |-> <<"bash">>,
                  dir |-> escalate_server_boxlite_runtime_dir(host),
                  before |-> Snapshot(host),
                  overlaid |-> escalate_server_apply_boxlite_runtime_env(host, Snapshot(host)),
                  env |-> ExecEnv(host), applied |-> 1, ran |-> TRUE]
    /\ UNCHANGED <<host, escVars, apprVars, patchVars, execVars, sseVars>>

\* apply_boxlite_runtime_env applied once more to the environment it produced.
reapply_boxlite_runtime_env ==
    /\ launch.stage \in {"apply_patch", "exec"}
    /\ launch.applied < MaxApplied
    /\ launch' = [launch EXCEPT !.before = launch.overlaid,
                                !.overlaid =
                                    IF launch.stage = "exec"
                                    THEN escalate_server_apply_boxlite_runtime_env(
                                             host, launch.overlaid)
                                    ELSE apply_boxlite_runtime_env(host, launch.overlaid),
                                !.applied = @ + 1]
    /\ UNCHANGED <<host, escVars, apprVars, patchVars, execVars, sseVars>>

(***************************************************************************)
(* Claims about child environments and commands                            *)
(***************************************************************************)
Launched == launch.stage \in {"apply_patch", "exec"}

\* The host with one variable changed.
Changed(h, k, v) == [h EXCEPT !.environ = [@ EXCEPT ![k] = v]]

\* C23: the environment handed to a sandboxed child contains no variable inherited
\* implicitly from the host other than the core and the loader variables (with the
\* runtime-dir overlay): changing any other host variable does not change the
\* child's environment, for minimal_env and for EscalateServer::exec.
C23_NoImplicitInheritance ==
    Launched =>
        \A k \in OtherVars, v \in {Unset, <<"d">>, <<"d", "d">>} :
            launch.env = (IF launch.stage = "exec" THEN ExecEnv(Changed(host, k, v))
                          ELSE minimal_env(Changed(host, k, v)))

\* The entries of a path-list value that are not the path D, in their order.
EntriesWithout(old, D) ==
    IF old = Unset THEN <<>>
    ELSE SelectSeq(split_paths(old), LAMBDA entry : ~PathEq(entry, D))

LoaderPathVars == {LOADER_PATH_ENV_VARS[i] : i \in 1..Len(LOADER_PATH_ENV_VARS)}

\* C24 as stated: when a runtime dir D is discovered, apply_boxlite_runtime_env sets
\* BOXLITE_RUNTIME_DIR to D and makes each of the three loader-path variables D followed
\* by the variable's previous entries, in their order, without D; a second application
\* changes nothing; without a runtime dir the environment is left unchanged.
C24_Original ==
    Launched =>
        IF launch.dir.some
        THEN /\ launch.applied = 1 =>
                  /\ launch.overlaid[BOXLITE_RUNTIME_ENV_VAR] = launch.dir.path
                  /\ \A key \in LoaderPathVars :
                        split_paths(launch.overlaid[key]) =
                            <<launch.dir.path>>
                                \o EntriesWithout(launch.before[key], launch.dir.path)
             /\ launch.applied > 1 => launch.overlaid = launch.before
        ELSE launch.overlaid = launch.before

\* C24 (amended): when a runtime dir D is discovered, BOXLITE_RUNTIME_DIR is set to D;
\* if D contains no path-list separator each loader-path variable becomes D followed
\* by its previous entries, in their order, without those that are the path D; if D
\* contains the separator the loader-path variables are left as they were; no other
\* variable changes; a second application changes nothing; without a runtime dir
\* the environment is left unchanged.
C24_Overlay ==
    Launched =>
        IF launch.dir.some
        THEN /\ launch.applied = 1 =>
                  /\ launch.overlaid[BOXLITE_RUNTIME_ENV_VAR] = launch.dir.path
                  /\ \A key \in LoaderPathVars :
                        IF \E i \in 1..Len(launch.dir.path) : launch.dir.path[i] = ":"
                        THEN launch.overlaid[key] = launch.before[key]
                        ELSE split_paths(launch.overlaid[key]) =
                                <<launch.dir.path>>
                                    \o EntriesWithout(launch.before[key], launch.dir.path)
                  /\ \A key \in EnvKeys \ (LoaderPathVars \cup {BOXLITE_RUNTIME_ENV_VAR}) :
                        launch.overlaid[key] = launch.before[key]
             /\ launch.applied > 1 => launch.overlaid = launch.before
        ELSE launch.overlaid = launch.before

\* The overlay was applied twice to an environment whose LD_LIBRARY_PATH was "/:d" with
\* the runtime dir "d": the variable is "d:/" and the second application kept it.
C24_Witness ==
    /\ launch.stage = "apply_patch"
    /\ launch.applied = 2
    /\ launch.dir.path = <<"d">>
    /\ host.environ["LD_LIBRARY_PATH"] = <<"/", ":", "d">>
    /\ launch.overlaid["LD_LIBRARY_PATH"] = <<"d", ":", "/">>
    /\ launch.overlaid = launch.before
    /\ launch.overlaid = launch.env

\* C25: runtime-dir discovery tries its sources in order and the first hit wins: an
\* explicit BOXLITE_RUNTIME_DIR is returned whenever it is set; otherwise
\* <profile-dir>/deps/runtime when it holds the probe file; the scan of the build
\* directory is consulted only when both miss.
C25_DiscoveryOrder ==
    Launched =>
        LET explicit == host.environ[BOXLITE_RUNTIME_ENV_VAR]
            installed == host.current_exe.some /\ Probe(DepsRuntimeDir) \in host.files
        IN  /\ explicit # Unset =>
                  /\ launch.dir.some
                  /\ launch.dir.path = explicit
                  /\ ~launch.dir.scanned
            /\ (explicit = Unset /\ installed) =>
                  /\ launch.dir.some
                  /\ launch.dir.path = DepsRuntimeDir
                  /\ ~launch.dir.scanned
            /\ launch.dir.scanned => (explicit = Unset /\ ~installed)
            /\ (launch.applied = 1 /\ launch.dir.some) =>
                  launch.env[BOXLITE_RUNTIME_ENV_VAR] = launch.dir.path

\* The variable is set on a host where the installed runtime dir and a build directory
\* hold the probe file too: the variable's value is the runtime dir of the child.
C25_Witness ==
    /\ Launched
    /\ host.environ[BOXLITE_RUNTIME_ENV_VAR] = <<"d">>
    /\ Probe(DepsRuntimeDir) \in host.files
    /\ \E i \in 1..Len(host.read_dir.entries) :
          Probe(RuntimeDirOf(BuildDir, host.read_dir.entries[i])) \in host.files
    /\ launch.dir.source = "env"
    /\ launch.env[BOXLITE_RUNTIME_ENV_VAR] = <<"d">>

\* C26: when several build/boxlite-* directories hold out/runtime/<probe-file>, the
\* scan returns the newest of them, whatever the order of the directory entries.
C26_NewestBuildDir ==
    (Launched /\ launch.dir.source = "build") =>
        LET matching == {n \in BuildNames :
                            /\ \E i \in 1..Len(host.read_dir.entries) :
                                  host.read_dir.entries[i] = n
                            /\ StartsWithBoxlite(n)
                            /\ Probe(RuntimeDirOf(BuildDir, n)) \in host.files}
            newest == CHOOSE n \in matching : \A m \in matching : Mtime(m) <= Mtime(n)
        IN  launch.dir.path = RuntimeDirOf(BuildDir, newest)

\* C28 as stated: the program of the apply-patch command is the caller-provided
\* codex_exe whenever it is given and exists, and the current executable otherwise; if
\* the current executable is needed and cannot be determined the command is rejected
\* and nothing is run.
C28_Original ==
    launch.stage \in {"apply_patch", "rejected"} =>
        IF launch.codex_exe.some /\ launch.codex_exe.path \in host.files
        THEN launch.stage = "apply_patch" /\ launch.program = launch.codex_exe.path
        ELSE IF host.current_exe.some
        THEN launch.stage = "apply_patch" /\ launch.program = host.current_exe.path
        ELSE launch.stage = "rejected" /\ ~launch.ran

\* C28 (amended): in a build for Linux the program is the caller-provided codex_exe
\* whenever it is given and exists, and the current executable otherwise; in a build
\* for any other target it is always the current executable; if the current
\* executable is needed and cannot be determined the command is rejected and nothing
\* is run.
C28_Program ==
    launch.stage \in {"apply_patch", "rejected"} =>
        IF /\ host.target_os = "linux"
           /\ launch.codex_exe.some
           /\ launch.codex_exe.path \in host.files
        THEN launch.stage = "apply_patch" /\ launch.program = launch.codex_exe.path
        ELSE IF host.current_exe.some
        THEN launch.stage = "apply_patch" /\ launch.program = host.current_exe.path
        ELSE launch.stage = "rejected" /\ ~launch.ran

\* On Linux a patch was run with the caller's codex_exe, which exists, on a host whose
\* own executable cannot be determined.
C28_Witness ==
    /\ launch.stage = "apply_patch"
    /\ host.target_os = "linux"
    /\ launch.codex_exe = Some(CodexExePath)
    /\ CodexExePath \in host.files
    /\ ~host.current_exe.some
    /\ launch.program = CodexExePath
    /\ launch.ran

\* C40: the two copies of the runtime-dir logic, in escalate_server.rs and in
\* apply_patch.rs, are equivalent: for the same host environment, executable path,
\* directory contents and input env map they produce the same runtime dir and the same
\* resulting values of BOXLITE_RUNTIME_DIR and the three loader-path variables.  The
\* input env map is the one the caller passed: the snapshot of the process, the
\* minimal env, or an env that was overlaid before.
C40_CopiesEquivalent ==
    Launched =>
        LET exe == host.current_exe
            dir == boxlite_runtime_dir(host)
            keys == {BOXLITE_RUNTIME_ENV_VAR} \cup LoaderPathVars
            overlaid == apply_boxlite_runtime_env(host, launch.before)
        IN  /\ exe.some =>
                  LET profile_dir == profile_dir_from_exe(exe.path)
                  IN  /\ escalate_server_profile_dir_from_exe(exe.path) = profile_dir
                      /\ profile_dir.some =>
                            escalate_server_discover_boxlite_runtime_dir(host, profile_dir.path)
                                = discover_boxlite_runtime_dir(host, profile_dir.path)
            /\ escalate_server_boxlite_runtime_dir(host) = dir
            /\ launch.dir = dir
            /\ escalate_server_apply_boxlite_runtime_env(host, launch.before) = overlaid
            /\ dir.some =>
                  \A key \in LoaderPathVars :
                      escalate_server_prepend_env_path(launch.before, key, dir.path)
                          = prepend_env_path(launch.before, key, dir.path)
            /\ \A key \in keys : launch.overlaid[key] = overlaid[key]

\* EscalateServer::exec overlaid the snapshot of a host whose LD_LIBRARY_PATH already
\* held the runtime dir behind another entry: its copy moved the dir to the front.
C40_Witness ==
    /\ launch.stage = "exec"
    /\ launch.applied = 1
    /\ launch.dir.path = <<"d">>
    /\ launch.before["LD_LIBRARY_PATH"] = <<"/", ":", "d">>
    /\ launch.overlaid["LD_LIBRARY_PATH"] = <<"d", ":", "/">>
    /\ launch.overlaid["LD_LIBRARY_PATH"]
          = apply_boxlite_runtime_env(host, launch.before)["LD_LIBRARY_PATH"]

(***************************************************************************)
(* The SSE stream of a thread: the SessionStore of active streams, the     *)
(* stream_events generator and the notifications of process_event          *)
(***************************************************************************)
MaxEvents == 3          \* events the threads produce
MaxRegistered == 4      \* register_stream calls for one thread while it is present

StreamIds == {"sse1", "sse2"}

\* SessionStore.active_streams: HashMap<ThreadId, usize>
NoStreams == [th \in ThreadIds |-> [present |-> FALSE, count |-> 0]]

\* The register_stream and unregister_stream calls applied to a thread since it became
\* present in the store.
NoStoreCalls == [th \in ThreadIds |-> [registered |-> 0, unregistered |-> 0]]

\* *self.active_streams.entry(thread_id).or_insert(0) += 1
register_stream(store, thread_id) ==
    [store EXCEPT ![thread_id] =
        [present |-> TRUE, count |-> (IF @.present THEN @.count ELSE 0) + 1]]

\* usize::saturating_sub(1)
saturating_sub_1(count) == IF count = 0 THEN 0 ELSE count - 1

\* Faulty variant: an entry whose count reaches zero stays in the map.
unregister_stream_keeps_empty_entry(store, thread_id) ==
    IF store[thread_id].present
    THEN [store EXCEPT ![thread_id].count = saturating_sub_1(@)]
    ELSE store

\* if let Some(count) = get_mut(&thread_id) { *count = count.saturating_sub(1);
\*     if *count == 0 { remove(&thread_id) } }
unregister_stream(store, thread_id) ==
    IF store[thread_id].present
    THEN IF saturating_sub_1(store[thread_id].count) = 0
         THEN [store EXCEPT ![thread_id] = [present |-> FALSE, count |-> 0]]
         ELSE [store EXCEPT ![thread_id].count = saturating_sub_1(@)]
    ELSE store

\* The calls applied while present, after register_stream(thread_id).
Registered(counts, thread_id) == [counts EXCEPT ![thread_id].registered = @ + 1]

\* The counts applied while present, after unregister_stream(thread_id) led to after.
Unregistered(counts, before, after, thread_id) ==
    IF ~before[thread_id].present THEN counts
    ELSE IF ~after[thread_id].present
    THEN [counts EXCEPT ![thread_id] = [registered |-> 0, unregistered |-> 0]]
    ELSE [counts EXCEPT ![thread_id].unregistered = @ + 1]

\* A caller of the store registers a stream of the thread.
SessionStore_register_stream(thread_id) ==
    /\ store_calls[thread_id].registered < MaxRegistered
    /\ active_streams' = register_stream(active_streams, thread_id)
    /\ store_calls' = Registered(store_calls, thread_id)
    /\ UNCHANGED <<sse, thread_events, escVars, apprVars, patchVars, execVars, launchVars>>

\* A caller of the store unregisters a stream of the thread.
SessionStore_unregister_stream(thread_id) ==
    /\ active_streams' = unregister_stream(active_streams, thread_id)
    /\ store_calls' = Unregistered(store_calls, active_streams, active_streams', thread_id)
    /\ UNCHANGED <<sse, thread_events, escVars, apprVars, patchVars, execVars, launchVars>>

\* The events of a thread: one command call, an image view, a rollback.
Events ==
    {[kind |-> k, call_id |-> "cmd-1"] :
        k \in {"ExecCommandBegin", "ExecCommandOutputDelta", "ExecCommandEnd"}}
        \cup {[kind |-> "ViewImageToolCall", call_id |-> "img-1"],
              [kind |-> "ThreadRolledBack", call_id |-> ""]}

NoEvents == [th \in ThreadIds |-> [produced |-> <<>>, taken |-> 0, closed |-> FALSE]]

\* A notification, with the position of the event it was derived from.
ServerNotification(type, item_id, event) ==
    [type |-> type, item_id |-> item_id, event |-> event]

\* EventStreamProcessor::process_event of the event at a position, and
\* event_type_name of each notification.
process_event(e, at) ==
    CASE e.kind = "ExecCommandBegin" ->
            <<ServerNotification("item/started", e.call_id, at)>>
      [] e.kind = "ExecCommandOutputDelta" ->
            <<ServerNotification("item/commandExecution/outputDelta", e.call_id, at)>>
      [] e.kind = "ExecCommandEnd" ->
            <<ServerNotification("item/completed", e.call_id, at)>>
      [] e.kind = "ViewImageToolCall" ->
            <<ServerNotification("item/started", e.call_id, at),
              ServerNotification("item/completed", e.call_id, at)>>
      [] OTHER -> <<>>

NoStream ==
    [pc |-> "unused", thread_id |-> "", received |-> <<>>, pending |-> <<>>,
     emitted |-> <<>>]

\* The thread produces an event: for a command call, its begin, then its output
\* deltas, then its end; an item id names one item of the thread.
thread_produces(th, e) ==
    LET produced == thread_events[th].produced
        begun == \E i \in DOMAIN produced : produced[i].kind = "ExecCommandBegin"
        ended == \E i \in DOMAIN produced : produced[i].kind = "ExecCommandEnd"
        total == Len(thread_events["t1"].produced) + Len(thread_events["t2"].produced)
    IN  /\ ~thread_events[th].closed
        /\ total < MaxEvents
        /\ e.kind = "ExecCommandBegin" => ~begun
        /\ e.kind \in {"ExecCommandOutputDelta", "ExecCommandEnd"} => (begun /\ ~ended)
        /\ e.kind = "ViewImageToolCall" =>
              ~\E i \in DOMAIN produced : produced[i].kind = "ViewImageToolCall"
        /\ thread_events' = [thread_events EXCEPT ![th].produced = Append(@, e)]
        /\ UNCHANGED <<active_streams, store_calls, sse, escVars, apprVars, patchVars, execVars, launchVars>>

\* The thread shuts down: next_event() fails once its events are consumed.
thread_closes(th) ==
    /\ ~thread_events[th].closed
    /\ thread_events' = [thread_events EXCEPT ![th].closed = TRUE]
    /\ UNCHANGED <<active_streams, store_calls, sse, escVars, apprVars, patchVars, execVars, launchVars>>

\* stream_events up to the construction of the stream: register the stream.
stream_events(s, th) ==
    /\ sse[s].pc = "unused"
    /\ active_streams' = register_stream(active_streams, th)
    /\ store_calls' = Registered(store_calls, th)
    /\ sse' = [sse EXCEPT ![s] = [NoStream EXCEPT !.pc = "next_event", !.thread_id = th]]
    /\ UNCHANGED <<thread_events, escVars, apprVars, patchVars, execVars, launchVars>>

\* match thread.next_event().await: Ok(event) => process_event and start yielding its
\* notifications; Err(_) => unregister_stream and break.
stream_next_event(s) ==
    LET th == sse[s].thread_id
        q == thread_events[th]
        at == q.taken + 1
        notifications == process_event(q.produced[at], at)
    IN  /\ sse[s].pc = "next_event"
        /\ IF q.taken < Len(q.produced)
           THEN /\ thread_events' = [thread_events EXCEPT ![th].taken = at]
                /\ sse' = [sse EXCEPT ![s].received = Append(@, at),
                                      ![s].pending = notifications,
                                      ![s].pc = IF notifications = <<>> THEN "next_event"
                                                ELSE "yield"]
                /\ UNCHANGED <<active_streams, store_calls>>
           ELSE /\ q.closed
                /\ active_streams' = unregister_stream(active_streams, th)
                /\ store_calls' = Unregistered(store_calls, active_streams, active_streams', th)
                /\ sse' = [sse EXCEPT ![s].pc = "ended"]
                /\ UNCHANGED thread_events
        /\ UNCHANGED <<escVars, apprVars, patchVars, execVars, launchVars>>

\* Faulty variant: the notifications of an event are sent last first.
stream_yield_notification_last_first(s) ==
    /\ sse[s].pc = "yield"
    /\ sse' = [sse EXCEPT ![s].emitted = Append(@, sse[s].pending[Len(sse[s].pending)]),
                          ![s].pending = SubSeq(@, 1, Len(@) - 1),
                          ![s].pc = IF Len(sse[s].pending) = 1 THEN "next_event" ELSE "yield"]
    /\ UNCHANGED <<active_streams, store_calls, thread_events, escVars, apprVars, patchVars, execVars, launchVars>>

\* for notification in notifications { yield Ok(Event::default().event(..).data(..)) }
stream_yield_notification(s) ==
    /\ sse[s].pc = "yield"
    /\ sse' = [sse EXCEPT ![s].emitted = Append(@, Head(sse[s].pending)),
                          ![s].pending = Tail(@),
                          ![s].pc = IF Len(sse[s].pending) = 1 THEN "next_event" ELSE "yield"]
    /\ UNCHANGED <<active_streams, store_calls, thread_events, escVars, apprVars, patchVars, execVars, launchVars>>

\* The client disconnects: axum drops the stream where it stands, and what it had
\* still to yield with it. Nothing of the generator runs after that.
stream_client_disconnects(s) ==
    /\ sse[s].pc \in {"next_event", "yield"}
    /\ sse' = [sse EXCEPT ![s].pc = "disconnected", ![s].pending = <<>>]
    /\ UNCHANGED <<active_streams, store_calls, thread_events, escVars, apprVars, patchVars, execVars, launchVars>>

\* The notifications of the events a stream received, in the order it received them.
RECURSIVE NotificationsOf(_, _)
NotificationsOf(produced, received) ==
    IF received = <<>> THEN <<>>
    ELSE process_event(produced[Head(received)], Head(received))
            \o NotificationsOf(produced, Tail(received))

\* The place of a notification of a command call within the call.
Rank(type) ==
    CASE type = "item/started" -> 0
      [] type = "item/commandExecution/outputDelta" -> 1
      [] OTHER -> 2

\* C36: the SSE stream of a thread emits notifications in the order in which the thread
\* produced the events: the events a stream receives are in production order, what it
\* has emitted and has still to yield are their notifications in that order, those of
\* one event contiguous; and for an item, item/started precedes its output deltas,
\* which precede item/completed.
C36_EmittedInOrder ==
    \A s \in StreamIds :
        sse[s].pc # "unused" =>
            LET r == sse[s]
                all == NotificationsOf(thread_events[r.thread_id].produced, r.received)
            IN  /\ \A i, j \in DOMAIN r.received : i < j => r.received[i] < r.received[j]
                /\ Len(r.emitted) <= Len(all)
                /\ r.emitted = SubSeq(all, 1, Len(r.emitted))
                /\ r.pc # "disconnected" => r.emitted \o r.pending = all
                /\ \A i, j \in DOMAIN r.emitted :
                      (i < j /\ r.emitted[i].item_id = r.emitted[j].item_id)
                          => Rank(r.emitted[i].type) <= Rank(r.emitted[j].type)

\* A stream has received the begin, an output delta and the end of the command and
\* has emitted the started, output delta and completed notifications in that order.
C36_Witness ==
    \E s \in StreamIds :
        /\ sse[s].received = <<1, 2, 3>>
        /\ Len(sse[s].emitted) = 3
        /\ sse[s].emitted[1].type = "item/started"
        /\ sse[s].emitted[2].type = "item/commandExecution/outputDelta"
        /\ sse[s].emitted[3].type = "item/completed"
        /\ \A i \in 1..3 : sse[s].emitted[i].item_id = "cmd-1"

\* C37: every SSE stream registered in the SessionStore by stream_events is
\* unregistered when the stream ends, whether the thread's event source failed or the
\* client disconnected: once no stream is open, no thread has an active-stream count.
C37_UnregisteredAtEnd ==
    (\A s \in StreamIds : sse[s].pc \in {"unused", "ended", "disconnected"})
        => \A th \in ThreadIds : ~active_streams[th].present

\* C38: after any sequence of register_stream and unregister_stream calls every thread
\* present in the SessionStore has a count of at least 1, equal to the registrations
\* minus the unregistrations applied while it was present; unregister_stream for an
\* absent thread changes nothing, and neither operation changes another thread's count.
C38_StoreCounts ==
    [][/\ \A th \in ThreadIds :
              /\ active_streams'[th].present =>
                    /\ active_streams'[th].count >= 1
                    /\ active_streams'[th].count =
                          store_calls'[th].registered - store_calls'[th].unregistered
              /\ ~active_streams'[th].present => active_streams'[th].count = 0
       /\ \A th \in ThreadIds :
              (SessionStore_unregister_stream(th) /\ ~active_streams[th].present)
                  => active_streams' = active_streams
       /\ \A th, other \in ThreadIds :
              ((SessionStore_register_stream(th) \/ SessionStore_unregister_stream(th))
                  /\ other # th) => active_streams'[other] = active_streams[other]]_vars

\* A thread with two registrations and one unregistration while present has count 1,
\* next to a thread whose only stream was unregistered.
C38_Witness ==
    /\ active_streams["t1"] = [present |-> TRUE, count |-> 1]
    /\ store_calls["t1"] = [registered |-> 2, unregistered |-> 1]
    /\ ~active_streams["t2"].present

(***************************************************************************)
(* Initial states, next-state relations and specifications                 *)
(***************************************************************************)
InitEsc ==
    /\ server_loop = "running"
    /\ dropped_handshakes = 0
    /\ handshake = NoHandshake
    /\ sessions = [s \in SessionIds |-> UnusedSession]
    /\ exec_call = "running"

InitAppr ==
    /\ pending_approvals = [id \in ApprovalIds |-> NoCtx]
    /\ channels = [c \in ChanIds |-> UnusedChannel]
    /\ next_chan = 1
    /\ streams = [th \in ThreadIds |-> [pc |-> "next_event", rx |-> 0]]
    /\ now = 0
    /\ ok_responses = [id \in ApprovalIds |-> 0]
    /\ last_response = NoCall

InitPatch ==
    /\ calls = [c \in CallIds |-> NewCall]
    /\ prompts = [p \in PromptIds |-> UnusedPrompt]
    /\ next_prompt = 1
    /\ approval_cache = {}
    /\ in_flight = [k \in FilePaths |-> 0]
    /\ session_answers = {}

InitExec ==
    /\ exec = IdleExec
    /\ response = NoResponse

\* The other subsystems run on one host and launch nothing.
InitHost ==
    /\ host = DefaultHost
    /\ launch = NoLaunch

InitLaunch ==
    /\ host \in Hosts
    /\ launch = NoLaunch

InitSse ==
    /\ active_streams = NoStreams
    /\ store_calls = NoStoreCalls
    /\ sse = [s \in StreamIds |-> NoStream]
    /\ thread_events = NoEvents

Init == InitEsc /\ InitAppr /\ InitPatch /\ InitExec /\ InitHost /\ InitSse

NextEsc ==
    \/ \E s \in SessionIds, req \in ConcurrentRequests : session_receive_request(s, req)
    \/ \E s \in SessionIds : session_determine_action(s)
    \/ \E s \in SessionIds : session_send_response(s)
    \/ \E s \in SessionIds, msg \in ConcurrentFdLists, fds \in ConcurrentFdLists :
          session_receive_super_exec(s, msg, fds)
    \/ \E s \in SessionIds : session_wait_child(s)
    \/ \E s \in SessionIds : session_send_result(s)
    \/ escalate_task

\* The sessions of one EscalateServer::exec call, and the end of the call.
NextServer ==
    \/ NextEsc
    \/ \E result \in ExecToolCallResults : EscalateServer_exec_returns(result)

\* One session on its own, with every request.
NextSession ==
    \/ \E req \in EscalateRequests : session_receive_request(FirstSession, req)
    \/ session_determine_action(FirstSession)
    \/ session_send_response(FirstSession)
    \/ \E msg \in MsgFdLists, fds \in AncFdLists :
          session_receive_super_exec(FirstSession, msg, fds)
    \/ session_wait_child(FirstSession)
    \/ session_send_result(FirstSession)
    \/ escalate_task

NextAppr ==
    \/ \E th \in ThreadIds, id \in ApprovalIds : stream_register_approval(th, id)
    \/ \E th \in ThreadIds : stream_spawn_waiter(th)
    \/ \E th \in ThreadIds : stream_dropped(th)
    \/ \E c \in ChanIds : waiter_resume(c)
    \/ \E id \in ApprovalIds, d \in ApprovalDecision : respond_to_approval(id, d)
    \/ cleanup_expired
    \/ tick

NextPatch ==
    \/ \E c \in CallIds, k \in FilePaths, r \in ExecApprovalRequirement :
          begin_attempt(c, k, r)
    \/ \E c \in CallIds : start_approval_async(c)
    \/ \E p \in PromptIds, d \in ReviewDecision : answer_prompt(p, d)
    \/ \E p \in PromptIds : drop_prompt(p)
    \/ \E c \in CallIds : approval_resolved(c)
    \/ \E c \in CallIds : retry_approval_resolved(c)
    \/ \E c \in CallIds, o \in RunOutcomes, pol \in AskForApproval :
          sandboxed_run_done(c, o, pol)
    \/ \E c \in CallIds, o \in RunOutcomes \ {"SandboxDenied"} :
          unsandboxed_run_done(c, o)

NextExec ==
    \/ \E req \in CommandRequests : execute_command_checks(req)
    \/ \E caller \in Callers, e \in ExecExpiration : spawn_child(caller, e)
    \/ \E b \in Bytes : read_stdout_chunk(b)
    \/ \E b \in Bytes : read_stderr_chunk(b)
    \/ \E code \in ExitCodes, sig \in BOOLEAN : child_exits(code, sig)
    \/ expire
    \/ execute_command
    \/ next_command

NextLaunch ==
    \/ \E codex_exe \in {NoPath, Some(CodexExePath)} : run(codex_exe)
    \/ EscalateServer_exec
    \/ reapply_boxlite_runtime_env

\* The SSE streams of the threads.
NextSse ==
    \/ \E s \in StreamIds, th \in ThreadIds : stream_events(s, th)
    \/ \E s \in StreamIds : stream_next_event(s)
    \/ \E s \in StreamIds : stream_yield_notification(s)
    \/ \E s \in StreamIds : stream_client_disconnects(s)
    \/ \E th \in ThreadIds, e \in Events : thread_produces(th, e)
    \/ \E th \in ThreadIds : thread_closes(th)

\* The SessionStore under arbitrary callers.
NextStore ==
    \/ \E th \in ThreadIds : SessionStore_register_stream(th)
    \/ \E th \in ThreadIds : SessionStore_unregister_stream(th)

Next ==
    NextServer \/ NextSession \/ NextAppr \/ NextPatch \/ NextExec \/ NextLaunch
        \/ NextSse \/ NextStore

SpecEsc == Init /\ [][NextEsc]_vars

SpecSession == Init /\ [][NextSession]_vars

SpecServer == Init /\ [][NextServer]_vars

SpecAppr == Init /\ [][NextAppr]_vars

\* The web server as it runs: cleanup_expired has no caller, so no step of the running
\* server performs it.
NextApprRunning ==
    \/ \E th \in ThreadIds, id \in ApprovalIds : stream_register_approval(th, id)
    \/ \E th \in ThreadIds : stream_spawn_waiter(th)
    \/ \E th \in ThreadIds : stream_dropped(th)
    \/ \E c \in ChanIds : waiter_resume(c)
    \/ \E id \in ApprovalIds, d \in ApprovalDecision : respond_to_approval(id, d)
    \/ tick

\* Fairness: the runtime polls a live stream and runs every spawned waiter task, and
\* time passes. Replies and disconnects are the client's to make; nothing obliges them.
SpecApprRunning ==
    /\ Init
    /\ [][NextApprRunning]_vars
    /\ WF_vars(tick)
    /\ \A th \in ThreadIds : WF_vars(stream_spawn_waiter(th))
    /\ \A c \in ChanIds : WF_vars(waiter_resume(c))

SpecPatch == Init /\ [][NextPatch]_vars

SpecExec == Init /\ [][NextExec]_vars

\* Launches on every host.
InitLaunches == InitEsc /\ InitAppr /\ InitPatch /\ InitExec /\ InitLaunch /\ InitSse

SpecLaunch == InitLaunches /\ [][NextLaunch]_vars

SpecSse == Init /\ [][NextSse]_vars

SpecStore == Init /\ [][NextStore]_vars

Spec == Init /\ [][Next]_vars
====
